---------------------------- MODULE Spec2Model ----------------------------
(***************************************************************************)
(* Model of the ingredient-quantity normalisation and nutrition            *)
(* aggregation engine of the recipe pipeline (usda_nutrition.py) and of    *)
(* the place in recipe_automation_v2.py that calls it.                     *)
(*                                                                         *)
(* Text is modelled as a sequence of one-character strings, so that the    *)
(* regular expressions of parse_ingredient are computed character by       *)
(* character.  Python floats are modelled as exact rationals <<n, d>>      *)
(* (d > 0, lowest terms); float rounding is not modelled.                  *)
(***************************************************************************)
EXTENDS Integers, Sequences, FiniteSets, TLC

(***************************************************************************)
(* Bounds of the model.                                                    *)
(***************************************************************************)
\* largest number of ingredient lines of one recipe
MaxLines == 2

(***************************************************************************)
(* Characters and strings.  A character of U+0000..U+00FF is the string    *)
(* of that one character.  A decimal digit of another script is the        *)
(* string "U+" followed by its code point in hexadecimal, for instance     *)
(* "U+0663" for ARABIC-INDIC DIGIT THREE.  These are the characters of the *)
(* text of the model; no other character occurs in it.  The tables below   *)
(* are those of Python 3.11 (Unicode 14.0).                                *)
(***************************************************************************)
\* the characters of category Nd, one row per run of ten, in the order of
\* their values 0..9; Python's \d, float() and int() take exactly these
DigitRows ==
    << <<"0","1","2","3","4","5","6","7","8","9">>,
       <<"U+0660","U+0661","U+0662","U+0663","U+0664","U+0665","U+0666","U+0667","U+0668","U+0669">>,
       <<"U+06F0","U+06F1","U+06F2","U+06F3","U+06F4","U+06F5","U+06F6","U+06F7","U+06F8","U+06F9">>,
       <<"U+07C0","U+07C1","U+07C2","U+07C3","U+07C4","U+07C5","U+07C6","U+07C7","U+07C8","U+07C9">>,
       <<"U+0966","U+0967","U+0968","U+0969","U+096A","U+096B","U+096C","U+096D","U+096E","U+096F">>,
       <<"U+09E6","U+09E7","U+09E8","U+09E9","U+09EA","U+09EB","U+09EC","U+09ED","U+09EE","U+09EF">>,
       <<"U+0A66","U+0A67","U+0A68","U+0A69","U+0A6A","U+0A6B","U+0A6C","U+0A6D","U+0A6E","U+0A6F">>,
       <<"U+0AE6","U+0AE7","U+0AE8","U+0AE9","U+0AEA","U+0AEB","U+0AEC","U+0AED","U+0AEE","U+0AEF">>,
       <<"U+0B66","U+0B67","U+0B68","U+0B69","U+0B6A","U+0B6B","U+0B6C","U+0B6D","U+0B6E","U+0B6F">>,
       <<"U+0BE6","U+0BE7","U+0BE8","U+0BE9","U+0BEA","U+0BEB","U+0BEC","U+0BED","U+0BEE","U+0BEF">>,
       <<"U+0C66","U+0C67","U+0C68","U+0C69","U+0C6A","U+0C6B","U+0C6C","U+0C6D","U+0C6E","U+0C6F">>,
       <<"U+0CE6","U+0CE7","U+0CE8","U+0CE9","U+0CEA","U+0CEB","U+0CEC","U+0CED","U+0CEE","U+0CEF">>,
       <<"U+0D66","U+0D67","U+0D68","U+0D69","U+0D6A","U+0D6B","U+0D6C","U+0D6D","U+0D6E","U+0D6F">>,
       <<"U+0DE6","U+0DE7","U+0DE8","U+0DE9","U+0DEA","U+0DEB","U+0DEC","U+0DED","U+0DEE","U+0DEF">>,
       <<"U+0E50","U+0E51","U+0E52","U+0E53","U+0E54","U+0E55","U+0E56","U+0E57","U+0E58","U+0E59">>,
       <<"U+0ED0","U+0ED1","U+0ED2","U+0ED3","U+0ED4","U+0ED5","U+0ED6","U+0ED7","U+0ED8","U+0ED9">>,
       <<"U+0F20","U+0F21","U+0F22","U+0F23","U+0F24","U+0F25","U+0F26","U+0F27","U+0F28","U+0F29">>,
       <<"U+1040","U+1041","U+1042","U+1043","U+1044","U+1045","U+1046","U+1047","U+1048","U+1049">>,
       <<"U+1090","U+1091","U+1092","U+1093","U+1094","U+1095","U+1096","U+1097","U+1098","U+1099">>,
       <<"U+17E0","U+17E1","U+17E2","U+17E3","U+17E4","U+17E5","U+17E6","U+17E7","U+17E8","U+17E9">>,
       <<"U+1810","U+1811","U+1812","U+1813","U+1814","U+1815","U+1816","U+1817","U+1818","U+1819">>,
       <<"U+1946","U+1947","U+1948","U+1949","U+194A","U+194B","U+194C","U+194D","U+194E","U+194F">>,
       <<"U+19D0","U+19D1","U+19D2","U+19D3","U+19D4","U+19D5","U+19D6","U+19D7","U+19D8","U+19D9">>,
       <<"U+1A80","U+1A81","U+1A82","U+1A83","U+1A84","U+1A85","U+1A86","U+1A87","U+1A88","U+1A89">>,
       <<"U+1A90","U+1A91","U+1A92","U+1A93","U+1A94","U+1A95","U+1A96","U+1A97","U+1A98","U+1A99">>,
       <<"U+1B50","U+1B51","U+1B52","U+1B53","U+1B54","U+1B55","U+1B56","U+1B57","U+1B58","U+1B59">>,
       <<"U+1BB0","U+1BB1","U+1BB2","U+1BB3","U+1BB4","U+1BB5","U+1BB6","U+1BB7","U+1BB8","U+1BB9">>,
       <<"U+1C40","U+1C41","U+1C42","U+1C43","U+1C44","U+1C45","U+1C46","U+1C47","U+1C48","U+1C49">>,
       <<"U+1C50","U+1C51","U+1C52","U+1C53","U+1C54","U+1C55","U+1C56","U+1C57","U+1C58","U+1C59">>,
       <<"U+A620","U+A621","U+A622","U+A623","U+A624","U+A625","U+A626","U+A627","U+A628","U+A629">>,
       <<"U+A8D0","U+A8D1","U+A8D2","U+A8D3","U+A8D4","U+A8D5","U+A8D6","U+A8D7","U+A8D8","U+A8D9">>,
       <<"U+A900","U+A901","U+A902","U+A903","U+A904","U+A905","U+A906","U+A907","U+A908","U+A909">>,
       <<"U+A9D0","U+A9D1","U+A9D2","U+A9D3","U+A9D4","U+A9D5","U+A9D6","U+A9D7","U+A9D8","U+A9D9">>,
       <<"U+A9F0","U+A9F1","U+A9F2","U+A9F3","U+A9F4","U+A9F5","U+A9F6","U+A9F7","U+A9F8","U+A9F9">>,
       <<"U+AA50","U+AA51","U+AA52","U+AA53","U+AA54","U+AA55","U+AA56","U+AA57","U+AA58","U+AA59">>,
       <<"U+ABF0","U+ABF1","U+ABF2","U+ABF3","U+ABF4","U+ABF5","U+ABF6","U+ABF7","U+ABF8","U+ABF9">>,
       <<"U+FF10","U+FF11","U+FF12","U+FF13","U+FF14","U+FF15","U+FF16","U+FF17","U+FF18","U+FF19">>,
       <<"U+104A0","U+104A1","U+104A2","U+104A3","U+104A4","U+104A5","U+104A6","U+104A7","U+104A8","U+104A9">>,
       <<"U+10D30","U+10D31","U+10D32","U+10D33","U+10D34","U+10D35","U+10D36","U+10D37","U+10D38","U+10D39">>,
       <<"U+11066","U+11067","U+11068","U+11069","U+1106A","U+1106B","U+1106C","U+1106D","U+1106E","U+1106F">>,
       <<"U+110F0","U+110F1","U+110F2","U+110F3","U+110F4","U+110F5","U+110F6","U+110F7","U+110F8","U+110F9">>,
       <<"U+11136","U+11137","U+11138","U+11139","U+1113A","U+1113B","U+1113C","U+1113D","U+1113E","U+1113F">>,
       <<"U+111D0","U+111D1","U+111D2","U+111D3","U+111D4","U+111D5","U+111D6","U+111D7","U+111D8","U+111D9">>,
       <<"U+112F0","U+112F1","U+112F2","U+112F3","U+112F4","U+112F5","U+112F6","U+112F7","U+112F8","U+112F9">>,
       <<"U+11450","U+11451","U+11452","U+11453","U+11454","U+11455","U+11456","U+11457","U+11458","U+11459">>,
       <<"U+114D0","U+114D1","U+114D2","U+114D3","U+114D4","U+114D5","U+114D6","U+114D7","U+114D8","U+114D9">>,
       <<"U+11650","U+11651","U+11652","U+11653","U+11654","U+11655","U+11656","U+11657","U+11658","U+11659">>,
       <<"U+116C0","U+116C1","U+116C2","U+116C3","U+116C4","U+116C5","U+116C6","U+116C7","U+116C8","U+116C9">>,
       <<"U+11730","U+11731","U+11732","U+11733","U+11734","U+11735","U+11736","U+11737","U+11738","U+11739">>,
       <<"U+118E0","U+118E1","U+118E2","U+118E3","U+118E4","U+118E5","U+118E6","U+118E7","U+118E8","U+118E9">>,
       <<"U+11950","U+11951","U+11952","U+11953","U+11954","U+11955","U+11956","U+11957","U+11958","U+11959">>,
       <<"U+11C50","U+11C51","U+11C52","U+11C53","U+11C54","U+11C55","U+11C56","U+11C57","U+11C58","U+11C59">>,
       <<"U+11D50","U+11D51","U+11D52","U+11D53","U+11D54","U+11D55","U+11D56","U+11D57","U+11D58","U+11D59">>,
       <<"U+11DA0","U+11DA1","U+11DA2","U+11DA3","U+11DA4","U+11DA5","U+11DA6","U+11DA7","U+11DA8","U+11DA9">>,
       <<"U+16A60","U+16A61","U+16A62","U+16A63","U+16A64","U+16A65","U+16A66","U+16A67","U+16A68","U+16A69">>,
       <<"U+16AC0","U+16AC1","U+16AC2","U+16AC3","U+16AC4","U+16AC5","U+16AC6","U+16AC7","U+16AC8","U+16AC9">>,
       <<"U+16B50","U+16B51","U+16B52","U+16B53","U+16B54","U+16B55","U+16B56","U+16B57","U+16B58","U+16B59">>,
       <<"U+1D7CE","U+1D7CF","U+1D7D0","U+1D7D1","U+1D7D2","U+1D7D3","U+1D7D4","U+1D7D5","U+1D7D6","U+1D7D7">>,
       <<"U+1D7D8","U+1D7D9","U+1D7DA","U+1D7DB","U+1D7DC","U+1D7DD","U+1D7DE","U+1D7DF","U+1D7E0","U+1D7E1">>,
       <<"U+1D7E2","U+1D7E3","U+1D7E4","U+1D7E5","U+1D7E6","U+1D7E7","U+1D7E8","U+1D7E9","U+1D7EA","U+1D7EB">>,
       <<"U+1D7EC","U+1D7ED","U+1D7EE","U+1D7EF","U+1D7F0","U+1D7F1","U+1D7F2","U+1D7F3","U+1D7F4","U+1D7F5">>,
       <<"U+1D7F6","U+1D7F7","U+1D7F8","U+1D7F9","U+1D7FA","U+1D7FB","U+1D7FC","U+1D7FD","U+1D7FE","U+1D7FF">>,
       <<"U+1E140","U+1E141","U+1E142","U+1E143","U+1E144","U+1E145","U+1E146","U+1E147","U+1E148","U+1E149">>,
       <<"U+1E2F0","U+1E2F1","U+1E2F2","U+1E2F3","U+1E2F4","U+1E2F5","U+1E2F6","U+1E2F7","U+1E2F8","U+1E2F9">>,
       <<"U+1E950","U+1E951","U+1E952","U+1E953","U+1E954","U+1E955","U+1E956","U+1E957","U+1E958","U+1E959">>,
       <<"U+1FBF0","U+1FBF1","U+1FBF2","U+1FBF3","U+1FBF4","U+1FBF5","U+1FBF6","U+1FBF7","U+1FBF8","U+1FBF9">> >>

\* the characters the regular-expression class \d matches
Digits == {DigitRows[r][v] : r \in DOMAIN DigitRows, v \in 1..10}

\* the further characters of the text for which str.isdigit() is true
OtherDigits == {"²", "³", "¹"}

\* the characters that str.lower() changes
UpperSeq ==
    << "A", "B", "C", "D", "E", "F", "G", "H", "I", "J", "K", "L", "M", "N",
       "O", "P", "Q", "R", "S", "T", "U", "V", "W", "X", "Y", "Z", "À", "Á",
       "Â", "Ã", "Ä", "Å", "Æ", "Ç", "È", "É", "Ê", "Ë", "Ì", "Í", "Î", "Ï",
       "Ð", "Ñ", "Ò", "Ó", "Ô", "Õ", "Ö", "Ø", "Ù", "Ú", "Û", "Ü", "Ý", "Þ" >>

\* what str.lower() makes of them, position by position
LowerSeq ==
    << "a", "b", "c", "d", "e", "f", "g", "h", "i", "j", "k", "l", "m", "n",
       "o", "p", "q", "r", "s", "t", "u", "v", "w", "x", "y", "z", "à", "á",
       "â", "ã", "ä", "å", "æ", "ç", "è", "é", "ê", "ë", "ì", "í", "î", "ï",
       "ð", "ñ", "ò", "ó", "ô", "õ", "ö", "ø", "ù", "ú", "û", "ü", "ý", "þ" >>

UpperLetters == {UpperSeq[k] : k \in DOMAIN UpperSeq}

\* the characters for which str.islower() is true
LowerLetters ==
    { "a", "b", "c", "d", "e", "f", "g", "h", "i", "j", "k", "l", "m", "n",
      "o", "p", "q", "r", "s", "t", "u", "v", "w", "x", "y", "z", "ª", "µ",
      "º", "ß", "à", "á", "â", "ã", "ä", "å", "æ", "ç", "è", "é", "ê", "ë",
      "ì", "í", "î", "ï", "ð", "ñ", "ò", "ó", "ô", "õ", "ö", "ø", "ù", "ú",
      "û", "ü", "ý", "þ", "ÿ" }

\* the other characters the class \w matches, the underscore apart
OtherWordChars == {"²", "³", "¹", "¼", "½", "¾"}

LowerTable ==
    [c \in UpperLetters |-> LowerSeq[CHOOSE k \in DOMAIN UpperSeq : UpperSeq[k] = c]]

\* str.lower() on one character
LowerChar(c) == IF c \in UpperLetters THEN LowerTable[c] ELSE c

\* str.lower()
Lower(s) == [j \in 1..Len(s) |-> LowerChar(s[j])]

\* the regular-expression class \d
IsDigit(c) == c \in Digits

\* str.isdigit() on one character
isdigit(c) == c \in Digits \/ c \in OtherDigits

\* the regular-expression class \w
IsWordChar(c) ==
    \/ c \in Digits \/ c \in UpperLetters \/ c \in LowerLetters
    \/ c \in OtherWordChars \/ c = "_"

\* the characters str.strip() removes and the class \s matches: the five
\* with an escape, then U+000B, U+001C, U+001D, U+001E, U+001F, U+0085, U+00A0
Whitespace ==
    {"\t", "\n", "\f", "\r", " ", "", "", "", "", "", "", " "}

\* the regular-expression class \s
IsSpace(c) == c \in Whitespace

\* Below, CHOOSE r \in {F(t) : t \in {v}} : TRUE is F(v) with v computed first,
\* as the right-hand side of an assignment is computed before the next
\* statement reads the variable.

\* s[n:]
Drop(s, n) == SubSeq(s, n + 1, Len(s))

\* s[:n]
Take(s, n) == SubSeq(s, 1, n)

\* the subsequence of s at the positions in keep, in order
SelectPositions(s, keep) ==
    IF keep = 1..Len(s) THEN s
    ELSE [k \in 1..Cardinality(keep) |->
            s[CHOOSE j \in keep : Cardinality({i \in keep : i <= j}) = k]]

\* number of leading whitespace characters of s
LeadingSpaces(s) ==
    CHOOSE n \in 0..Len(s) :
        /\ \A j \in 1..n : IsSpace(s[j])
        /\ n = Len(s) \/ ~IsSpace(s[n + 1])

\* number of trailing whitespace characters of s
TrailingSpaces(s) ==
    CHOOSE n \in 0..Len(s) :
        /\ \A j \in (Len(s) - n + 1)..Len(s) : IsSpace(s[j])
        /\ n = Len(s) \/ ~IsSpace(s[Len(s) - n])

\* str.strip()
strip(s) ==
    LET l == LeadingSpaces(s)
    IN  IF l = Len(s) THEN <<>>
        ELSE SubSeq(s, l + 1, Len(s) - TrailingSpaces(s))

\* number of leading digits of s: the greedy match of \d* at the start
LeadingDigits(s) ==
    CHOOSE n \in 0..Len(s) :
        /\ \A j \in 1..n : IsDigit(s[j])
        /\ n = Len(s) \/ ~IsDigit(s[n + 1])

\* the lower-case literal lit matches s at position p, ignoring case
MatchesAt(s, p, lit) ==
    /\ p >= 1
    /\ p + Len(lit) - 1 <= Len(s)
    /\ \A j \in 1..Len(lit) : LowerChar(s[p + j - 1]) = LowerChar(lit[j])

\* the places of s where $ matches, as the number of characters before
\* them: the end of s, and the place before a newline that ends s
DollarEnds(s) ==
    {Len(s)} \cup (IF s # <<>> /\ s[Len(s)] = "\n" THEN {Len(s) - 1} ELSE {})

\* the place e where the match of lit$ in s ends, ignoring case, -1 when
\* lit$ does not match; the leftmost one when both places fit
SuffixEnd(s, lit) ==
    LET fits == {e \in DollarEnds(s) :
                   e >= Len(lit) /\ MatchesAt(s, e - Len(lit) + 1, lit)}
    IN  IF fits = {} THEN -1 ELSE CHOOSE e \in fits : \A f \in fits : e <= f

\* lit$ matches in s, ignoring case
EndsWith(s, lit) == SuffixEnd(s, lit) # -1

\* the regular-expression assertion \b just before position p of s
WordBoundary(s, p) ==
    LET before == p >= 2 /\ p - 1 <= Len(s) /\ IsWordChar(s[p - 1])
        after  == p >= 1 /\ p <= Len(s) /\ IsWordChar(s[p])
    IN  before # after

(***************************************************************************)
(* Regular expressions of the form \b(alt1|alt2|...)\b where every         *)
(* alternative is a literal word, optionally followed by \.?               *)
(***************************************************************************)
Word(lit) == [lit |-> lit, dot |-> FALSE]
WordDot(lit) == [lit |-> lit, dot |-> TRUE]

\* AltMatchEnd without the two \b assertions: a token is found inside a word
AltMatchEnd_unbounded(s, p, alt) ==
    IF ~MatchesAt(s, p, alt.lit) THEN 0
    ELSE LET e == p + Len(alt.lit)
         IN  IF alt.dot /\ e <= Len(s) /\ s[e] = "." THEN e + 1 ELSE e

\* position after the match of \b alt \b that starts at p, 0 when none.
\* The greedy \.? is tried with the period first, then without it.
AltMatchEnd(s, p, alt) ==
    IF ~WordBoundary(s, p) \/ ~MatchesAt(s, p, alt.lit) THEN 0
    ELSE LET e == p + Len(alt.lit)
         IN  IF alt.dot /\ e <= Len(s) /\ s[e] = "." /\ WordBoundary(s, e + 1)
               THEN e + 1
             ELSE IF WordBoundary(s, e) THEN e
             ELSE 0

\* position after the match of \b(alts)\b that starts at p, 0 when none;
\* the alternatives are tried in their written order
RECURSIVE GroupMatchEnd(_, _, _)
GroupMatchEnd(s, p, alts) ==
    IF alts = <<>> THEN 0
    ELSE LET e == AltMatchEnd(s, p, Head(alts))
         IN  IF e # 0 THEN e ELSE GroupMatchEnd(s, p, Tail(alts))

\* re.search(\b(alts)\b, s, IGNORECASE): <<start, end>> of the leftmost
\* match (end exclusive), <<0, 0>> when there is none
re_search(s, alts) ==
    LET starts == {p \in 1..Len(s) : GroupMatchEnd(s, p, alts) # 0}
    IN  IF starts = {} THEN <<0, 0>>
        ELSE LET p == CHOOSE q \in starts : \A r \in starts : q <= r
             IN  <<p, GroupMatchEnd(s, p, alts)>>

\* re.sub(\b(alts)\b, '', s, IGNORECASE) for alternatives that are whole
\* words: a match is a maximal run of word characters, so no two matches
\* overlap and the left-to-right scan removes every one of them
re_sub_words(s, alts) ==
    LET starts  == {p \in 1..Len(s) : GroupMatchEnd(s, p, alts) # 0}
        removed == {j \in 1..Len(s) :
                      \E p \in starts : p <= j /\ j < GroupMatchEnd(s, p, alts)}
    IN  IF starts = {} THEN s
        ELSE SelectPositions(s, (1..Len(s)) \ removed)

\* re.sub(r'\([^)]*\)', '', s): a match starts at the first "(" after the
\* previous ")" (or the start) and ends at the next ")", so position j is
\* removed exactly when a ")" stands at or after j and a "(" stands at or
\* before j with no ")" between that "(" and j
remove_parentheses(s) ==
    LET removed == {j \in 1..Len(s) :
                      /\ \E c \in j..Len(s) : s[c] = ")"
                      /\ \E o \in 1..j : /\ s[o] = "("
                                         /\ \A k \in o..(j - 1) : s[k] # ")"}
    IN  SelectPositions(s, (1..Len(s)) \ removed)

\* the adjectives of the modifier pattern, in their written order
modifiers ==
    << Word(<<"f","r","e","s","h">>), Word(<<"d","r","i","e","d">>), Word(<<"f","r","o","z","e","n">>), Word(<<"o","r","g","a","n","i","c">>),
       Word(<<"l","a","r","g","e">>), Word(<<"s","m","a","l","l">>), Word(<<"m","e","d","i","u","m">>), Word(<<"r","i","p","e">>),
       Word(<<"u","n","r","i","p","e">>) >>

\* re.sub(r'\b(fresh|dried|...)\b', '', s, IGNORECASE)
remove_modifiers(s) == re_sub_words(s, modifiers)

\* the unit table of the parser, in dictionary order
units ==
    << [name |-> "cup",
        alts |-> <<WordDot(<<"c">>), Word(<<"c","u","p">>), Word(<<"c","u","p","s">>)>>],
       [name |-> "tablespoon",
        alts |-> <<WordDot(<<"t","b","s","p">>), Word(<<"t","a","b","l","e","s","p","o","o","n">>), Word(<<"t","a","b","l","e","s","p","o","o","n","s">>)>>],
       [name |-> "teaspoon",
        alts |-> <<WordDot(<<"t","s","p">>), Word(<<"t","e","a","s","p","o","o","n">>), Word(<<"t","e","a","s","p","o","o","n","s">>)>>],
       [name |-> "ounce",
        alts |-> <<WordDot(<<"o","z">>), Word(<<"o","u","n","c","e">>), Word(<<"o","u","n","c","e","s">>)>>],
       [name |-> "pound",
        alts |-> <<WordDot(<<"l","b">>), Word(<<"p","o","u","n","d">>), Word(<<"p","o","u","n","d","s">>)>>],
       [name |-> "gram",
        alts |-> <<WordDot(<<"g">>), Word(<<"g","r","a","m">>), Word(<<"g","r","a","m","s">>)>>],
       [name |-> "pint",
        alts |-> <<Word(<<"p","i","n","t">>), Word(<<"p","i","n","t","s">>)>>],
       [name |-> "quart",
        alts |-> <<WordDot(<<"q","t">>), Word(<<"q","u","a","r","t">>), Word(<<"q","u","a","r","t","s">>)>>],
       [name |-> "gallon",
        alts |-> <<WordDot(<<"g","a","l">>), Word(<<"g","a","l","l","o","n">>), Word(<<"g","a","l","l","o","n","s">>)>> ] >>

\* the leading filler patterns, in list order; plus is TRUE for \s+ and
\* FALSE for \s* after the literal
prefixes_to_remove ==
    << [lit |-> <<".">>,              plus |-> FALSE],
       [lit |-> <<"a","t"," ","l","e","a","s","t">>,       plus |-> TRUE],
       [lit |-> <<"a","b","o","u","t">>,          plus |-> TRUE],
       [lit |-> <<"a","p","p","r","o","x","i","m","a","t","e","l","y">>,  plus |-> TRUE],
       [lit |-> <<"t","o"," ","t","a","s","t","e">>,       plus |-> TRUE],
       [lit |-> <<"f","o","r"," ","d","e","c","o","r","a","t","i","o","n">>, plus |-> FALSE],
       [lit |-> <<"c","h","o","p","p","e","d">>,        plus |-> TRUE],
       [lit |-> <<"d","i","c","e","d">>,          plus |-> TRUE],
       [lit |-> <<"m","i","n","c","e","d">>,         plus |-> TRUE],
       [lit |-> <<"s","l","i","c","e","d">>,         plus |-> TRUE],
       [lit |-> <<"g","r","a","t","e","d">>,         plus |-> TRUE] >>

\* re.sub(r'^lit\s+', '', s, IGNORECASE), or \s* when plus is FALSE
remove_prefix(s, prefix) ==
    IF ~MatchesAt(s, 1, prefix.lit) THEN s
    ELSE LET rest == Drop(s, Len(prefix.lit))
             ws   == LeadingSpaces(rest)
         IN  IF prefix.plus /\ ws = 0 THEN s ELSE Drop(rest, ws)

\* the loop over prefixes_to_remove: every pattern is applied once, in order
RECURSIVE remove_prefixes(_, _)
remove_prefixes(s, prefixes) ==
    IF prefixes = <<>> THEN s
    ELSE CHOOSE r \in {remove_prefixes(t, Tail(prefixes)) :
                          t \in {remove_prefix(s, Head(prefixes))}} : TRUE

\* re.sub(r'\.$', '', s): what stands after the place of $ is kept
remove_trailing_period(s) ==
    LET e == SuffixEnd(s, <<".">>)
    IN  IF e = -1 THEN s ELSE Take(s, e - 1) \o Drop(s, e)

\* re.sub(r',\s*lit$', '', s, IGNORECASE)
remove_comma_suffix(s, lit) ==
    LET e == SuffixEnd(s, lit)
    IN  IF e = -1 THEN s
        ELSE LET head == Take(s, e - Len(lit))
                 body == Take(head, Len(head) - TrailingSpaces(head))
             IN  IF body # <<>> /\ body[Len(body)] = ","
                   THEN Take(body, Len(body) - 1) \o Drop(s, e)
                 ELSE s

\* re.sub(r'\s+lit$', '', s, IGNORECASE)
remove_space_suffix(s, lit) ==
    LET e == SuffixEnd(s, lit)
    IN  IF e = -1 THEN s
        ELSE LET head == Take(s, e - Len(lit))
             IN  IF TrailingSpaces(head) = 0 THEN s
                 ELSE Take(head, Len(head) - TrailingSpaces(head)) \o Drop(s, e)

\* the participles of lines 193-197, in statement order
comma_suffixes == << <<"c","h","o","p","p","e","d">>, <<"d","i","c","e","d">>, <<"m","i","n","c","e","d">>, <<"s","l","i","c","e","d">>, <<"g","r","a","t","e","d">> >>

\* lines 193-197: the substitutions are applied one after the other
RECURSIVE remove_comma_suffixes(_, _)
remove_comma_suffixes(s, lits) ==
    IF lits = <<>> THEN s
    ELSE CHOOSE r \in {remove_comma_suffixes(t, Tail(lits)) :
                          t \in {remove_comma_suffix(s, Head(lits))}} : TRUE

\* the trailing period and trailing filler removal, in statement order
remove_suffixes(s) ==
    LET line_192     == {remove_trailing_period(s)}
        line_193_197 == {remove_comma_suffixes(t, comma_suffixes) : t \in line_192}
        line_198     == {remove_space_suffix(t, <<"f","o","r"," ","d","e","c","o","r","a","t","i","o","n">>) : t \in line_193_197}
    IN  CHOOSE r \in line_198 : TRUE

\* the text of the ingredient after the modifier, prefix and suffix removal
clean_ingredient(ingredient) ==
    LET line_154     == {remove_parentheses(ingredient)}
        line_155_156 == {strip(remove_modifiers(t)) : t \in line_154}
        line_186_189 == {strip(remove_prefixes(t, prefixes_to_remove)) : t \in line_155_156}
        line_192_200 == {strip(remove_suffixes(t)) : t \in line_186_189}
    IN  CHOOSE r \in line_192_200 : TRUE

\* length of the match of ^(\d+/\d+), 0 when there is none
fraction_match(s) ==
    LET n == LeadingDigits(s)
        m == IF n > 0 /\ n < Len(s) /\ s[n + 1] = "/"
               THEN LeadingDigits(Drop(s, n + 1)) ELSE 0
    IN  IF m > 0 THEN n + 1 + m ELSE 0

\* length of the match of ^(\d+(?:\.\d+)?), 0 when there is none
number_match(s) ==
    LET n == LeadingDigits(s)
        m == IF n > 0 /\ n < Len(s) /\ s[n + 1] = "."
               THEN LeadingDigits(Drop(s, n + 1)) ELSE 0
    IN  IF n = 0 THEN 0 ELSE IF m > 0 THEN n + 1 + m ELSE n

\* the loop over the unit table: the first unit, in table order, whose
\* pattern occurs in remaining; its leftmost match is cut out of the text
RECURSIVE find_unit(_, _)
find_unit(remaining, table) ==
    IF table = <<>> THEN [unit |-> "", food_name |-> remaining]
    ELSE LET m == re_search(remaining, Head(table).alts)
         IN  IF m[1] # 0
               THEN [unit |-> Head(table).name,
                     food_name |-> Take(remaining, m[1] - 1) \o Drop(remaining, m[2] - 1)]
             ELSE find_unit(remaining, Tail(table))

\* quantity_length with the number pattern tried before the fraction pattern
quantity_length_number_first(s) ==
    IF number_match(s) > 0 THEN number_match(s) ELSE fraction_match(s)

\* the quantity found at the start of the cleaned text: the fraction
\* pattern is tried first, then the number pattern; 0 when neither matches
quantity_length(s) ==
    IF fraction_match(s) > 0 THEN fraction_match(s) ELSE number_match(s)

\* parse_ingredient: quantity and food_name are texts, unit is a unit name
parse_ingredient(ingredient) ==
    LET with_unit(s, n, found) ==
            [quantity  |-> Take(s, n),
             unit      |-> found.unit,
             food_name |-> strip(found.food_name)]
        with_quantity(s, n) ==
            CHOOSE r \in {with_unit(s, n, find_unit(remaining, units)) :
                             remaining \in {strip(Drop(s, n))}} : TRUE
        parsed(s) ==
            LET n == quantity_length(s)
            IN  IF n > 0 THEN with_quantity(s, n)
                ELSE [quantity |-> <<"1">>, unit |-> "", food_name |-> s]
    IN  CHOOSE r \in {parsed(s) : s \in {clean_ingredient(ingredient)}} : TRUE

(***************************************************************************)
(* Numbers.  A Python float is an IEEE-754 double.  A double that is not   *)
(* zero is m * 2^e with 2^52 <= m < 2^53; it is written <<e, m1, m2, m3,   *)
(* m4>> with m = m1 + m2 * 2^14 + m3 * 2^28 + m4 * 2^42, and zero is       *)
(* <<0, 0, 0, 0, 0>>.  The numbers of the program are not negative, and    *)
(* none is large or small enough to overflow or to be subnormal.  An       *)
(* operation gives the double nearest to the exact result, a tie going to  *)
(* the even mantissa.  A Python int takes part in float arithmetic as the  *)
(* double of the same value.                                               *)
(***************************************************************************)
\* a natural number of any size is the sequence of its limbs, lowest first
Base == 16384

PowersOfTwo == <<2, 4, 8, 16, 32, 64, 128, 256, 512, 1024, 2048, 4096, 8192, 16384>>

\* 2^k for k in 0..14
TwoTo(k) == IF k = 0 THEN 1 ELSE PowersOfTwo[k]

\* the limbs of the column sums cols with the carry c brought in
RECURSIVE Carry(_, _)
Carry(cols, c) ==
    IF cols = <<>>
      THEN IF c = 0 THEN <<>> ELSE <<c % Base>> \o Carry(<<>>, c \div Base)
    ELSE CHOOSE r \in {<<t % Base>> \o Carry(Tail(cols), t \div Base) :
                          t \in {cols[1] + c}} : TRUE

\* the limb of x at place j, 0 beyond its length
Limb(x, j) == IF j >= 1 /\ j <= Len(x) THEN x[j] ELSE 0

\* the limbs of the integer n, 0 <= n < 2^31
BigOfInt(n) == Carry(<<n>>, 0)

\* the integer of the limbs x, below 2^31
RECURSIVE IntOfBig(_)
IntOfBig(x) == IF x = <<>> THEN 0 ELSE x[1] + Base * IntOfBig(Tail(x))

\* x + y
BigAdd(x, y) ==
    LET n == IF Len(x) >= Len(y) THEN Len(x) ELSE Len(y)
    IN  Carry([j \in 1..n |-> Limb(x, j) + Limb(y, j)], 0)

\* x * k for an integer 0 <= k < 2^16
BigMulSmall(x, k) == Carry([j \in 1..Len(x) |-> x[j] * k], 0)

\* x * y for two mantissas of four limbs
BigMul(x, y) ==
    Carry(<<x[1] * y[1],
            x[1] * y[2] + x[2] * y[1],
            x[1] * y[3] + x[2] * y[2] + x[3] * y[1],
            x[1] * y[4] + x[2] * y[3] + x[3] * y[2] + x[4] * y[1],
            x[2] * y[4] + x[3] * y[3] + x[4] * y[2],
            x[3] * y[4] + x[4] * y[3],
            x[4] * y[4]>>, 0)

\* one step of the short division: the limb joins the remainder of the
\* limbs above it
DivStep(high, limb, d) ==
    [q |-> <<(high.r * Base + limb) \div d>> \o high.q,
     r |-> (high.r * Base + limb) % d]

\* quotient q and remainder r of x by the integer d, 0 < d < 2^16
RECURSIVE BigDivMod(_, _)
BigDivMod(x, d) ==
    IF x = <<>> THEN [q |-> <<>>, r |-> 0]
    ELSE CHOOSE res \in {DivStep(high, x[1], d) :
                            high \in {BigDivMod(Tail(x), d)}} : TRUE

\* number of bits of a limb v > 0
LimbBits(v) == CHOOSE k \in 1..14 : TwoTo(k - 1) <= v /\ v < TwoTo(k)

\* number of bits of x, 0 for 0
BitLength(x) ==
    LET used == {j \in DOMAIN x : x[j] # 0}
    IN  IF used = {} THEN 0
        ELSE LET h == CHOOSE j \in used : \A k \in used : k <= j
             IN  14 * (h - 1) + LimbBits(x[h])

\* x * 2^s
ShiftLeft(x, s) ==
    LET a == s \div 14
        b == s % 14
    IN  [j \in 1..(Len(x) + a + 1) |->
            (Limb(x, j - a) % TwoTo(14 - b)) * TwoTo(b)
              + Limb(x, j - a - 1) \div TwoTo(14 - b)]

\* x \div 2^s
ShiftRight(x, s) ==
    LET a == s \div 14
        b == s % 14
    IN  [j \in 1..(Len(x) - a) |->
            x[j + a] \div TwoTo(b) + (Limb(x, j + a + 1) % TwoTo(b)) * TwoTo(14 - b)]

\* bit k of x, the lowest being bit 0
Bit(x, k) == (Limb(x, k \div 14 + 1) \div TwoTo(k % 14)) % 2

\* the bits 0 .. s-1 of x are all 0
LowBitsZero(x, s) ==
    /\ \A j \in 1..(s \div 14) : Limb(x, j) = 0
    /\ Limb(x, s \div 14 + 1) % TwoTo(s % 14) = 0

Zero == <<0, 0, 0, 0, 0>>

\* the double with mantissa m (limbs) and exponent e
Double(e, m) == <<e, m[1], m[2], m[3], m[4]>>

Mantissa(x) == <<x[2], x[3], x[4], x[5]>>

\* the double after the kept bits q of a longer result were rounded up
RoundedUp(e, q) ==
    LET m == Carry(<<q[1] + 1, q[2], q[3], q[4]>>, 0)
    IN  IF m[4] = 2048 THEN <<e + 1, 0, 0, 0, 1024>> ELSE Double(e, m)

\* the double nearest to x * 2^e (x > 0), where sticky tells that the
\* exact result lies above x * 2^e by less than 2^e; round half to even
RoundToDouble(x, e, sticky) ==
    LET n == BitLength(x)
    IN  IF n <= 53 THEN Double(e - (53 - n), ShiftLeft(x, 53 - n))
        ELSE LET s    == n - 53
                 q    == ShiftRight(x, s)
                 half == Bit(x, s - 1) = 1
                 rest == sticky \/ ~LowBitsZero(x, s - 1)
             IN  IF half /\ (rest \/ q[1] % 2 = 1) THEN RoundedUp(e + s, q)
                 ELSE Double(e + s, q)

\* float(n) for an integer 0 <= n < 2^31
float_of_int(n) == IF n = 0 THEN Zero ELSE RoundToDouble(BigOfInt(n), 0, FALSE)

\* a * b
float_mul(a, b) ==
    IF a = Zero \/ b = Zero THEN Zero
    ELSE RoundToDouble(BigMul(Mantissa(a), Mantissa(b)), a[1] + b[1], FALSE)

\* a + b
float_add(a, b) ==
    IF a = Zero THEN b
    ELSE IF b = Zero THEN a
    ELSE LET hi == IF a[1] >= b[1] THEN a ELSE b
             lo == IF a[1] >= b[1] THEN b ELSE a
             d  == hi[1] - lo[1]
         IN  IF d > 64 THEN hi
             ELSE RoundToDouble(BigAdd(ShiftLeft(Mantissa(hi), d), Mantissa(lo)),
                                lo[1], FALSE)

\* a / d for an integer 0 < d < 2^16: the mantissa is divided with 28 more
\* bits, the remainder telling whether the quotient is exact
float_truediv(a, d) ==
    IF a = Zero THEN Zero
    ELSE LET res == BigDivMod(<<0, 0>> \o Mantissa(a), d)
         IN  RoundToDouble(res.q, a[1] - 28, res.r # 0)

\* the double of the decimal literal n/d, d a power of ten below 2^16:
\* both are doubles, and the quotient is rounded once, as a literal is
Float(n, d) == float_truediv(float_of_int(n), d)

\* the digits of the natural number n
RECURSIVE DecimalText(_)
DecimalText(n) ==
    IF n < 10 THEN <<DigitRows[1][n + 1]>>
    ELSE Append(DecimalText(n \div 10), DigitRows[1][(n % 10) + 1])

\* the last k digits of n, with leading zeros
RECURSIVE FractionDigits(_, _)
FractionDigits(n, k) ==
    IF k = 0 THEN <<>>
    ELSE Append(FractionDigits(n \div 10, k - 1), DigitRows[1][(n % 10) + 1])

RECURSIVE Pow10(_)
Pow10(n) == IF n = 0 THEN 1 ELSE 10 * Pow10(n - 1)

\* round(x * 10^decimals), half to even, for a double x below 2^31 / 10^decimals
scaled_round(x, decimals) ==
    IF x = Zero THEN 0
    ELSE LET n == BigMulSmall(Mantissa(x), Pow10(decimals))
             s == -x[1]
             q == IntOfBig(ShiftRight(n, s))
             half == Bit(n, s - 1) = 1
             rest == ~LowBitsZero(n, s - 1)
         IN  IF s <= 0 THEN IntOfBig(ShiftLeft(n, -s))
             ELSE IF half /\ (rest \/ q % 2 = 1) THEN q + 1 ELSE q

\* f"{x:.0f}" and f"{x:.1f}": the decimal text of x rounded to that many
\* decimals, half to even on the exact value of the double
format_f(x, decimals) ==
    LET q == scaled_round(x, decimals)
    IN  DecimalText(q \div Pow10(decimals))
          \o (IF decimals = 0 THEN <<>>
              ELSE <<".">> \o FractionDigits(q % Pow10(decimals), decimals))

\* the value None
NoneValue == <<"None">>

\* the outcome of float() on a text that is not a number
ValueError == <<0, 0>>

\* the value of every decimal digit: its place in its row
DigitValues ==
    [c \in Digits |->
        CHOOSE v \in 0..9 : \E r \in DOMAIN DigitRows : DigitRows[r][v + 1] = c]

DigitValue(c) == DigitValues[c]

\* the number written by the decimal digits s
RECURSIVE DigitsValue(_)
DigitsValue(s) ==
    IF s = <<>> THEN 0
    ELSE 10 * DigitsValue(Take(s, Len(s) - 1)) + DigitValue(s[Len(s)])

\* float(text) for the texts parse_ingredient returns as quantity: digits,
\* digits.digits, or digits/digits.  A text with "/" is not a float literal,
\* so float() raises ValueError on every fraction.
python_float(text) ==
    LET n == LeadingDigits(text)
    IN  IF n > 0 /\ n = Len(text) THEN float_of_int(DigitsValue(text))
        ELSE IF /\ n > 0 /\ n + 1 < Len(text) /\ text[n + 1] = "."
                /\ LeadingDigits(Drop(text, n + 1)) = Len(text) - n - 1
          THEN Float(DigitsValue(Take(text, n) \o Drop(text, n + 1)),
                     Pow10(Len(text) - n - 1))
        ELSE ValueError

(***************************************************************************)
(* extract_nutrients                                                       *)
(***************************************************************************)
\* the keys of total_nutrients
NutrientKeys ==
    {"calories", "protein", "fat", "carbs", "fiber", "sugar", "sodium",
     "calcium", "iron", "vitamin_c", "vitamin_a"}

\* the search terms of every key
nutrient_mapping ==
    [calories  |-> <<<<"2","0","8">>, <<"E","N","E","R","C","_","K","C","A","L">>, <<"c","a","l","o","r","i","e","s">>, <<"e","n","e","r","g","y">>>>,
     protein   |-> <<<<"2","0","3">>, <<"P","R","O","C","N","T">>, <<"p","r","o","t","e","i","n">>>>,
     fat       |-> <<<<"2","0","4">>, <<"F","A","T">>, <<"t","o","t","a","l"," ","f","a","t">>, <<"f","a","t">>>>,
     carbs     |-> <<<<"2","0","5">>, <<"C","H","O","C","D","F">>, <<"c","a","r","b","o","h","y","d","r","a","t","e">>, <<"c","a","r","b","s">>>>,
     fiber     |-> <<<<"2","9","1">>, <<"F","I","B","T","G">>, <<"f","i","b","e","r">>, <<"d","i","e","t","a","r","y"," ","f","i","b","e","r">>>>,
     sugar     |-> <<<<"2","6","9">>, <<"S","U","G","A","R">>, <<"s","u","g","a","r">>, <<"t","o","t","a","l"," ","s","u","g","a","r","s">>>>,
     sodium    |-> <<<<"3","0","7">>, <<"N","A">>, <<"s","o","d","i","u","m">>>>,
     calcium   |-> <<<<"3","0","1">>, <<"C","A">>, <<"c","a","l","c","i","u","m">>>>,
     iron      |-> <<<<"3","0","3">>, <<"F","E">>, <<"i","r","o","n">>>>,
     vitamin_c |-> <<<<"4","0","1">>, <<"V","I","T","C">>, <<"v","i","t","a","m","i","n"," ","c">>, <<"a","s","c","o","r","b","i","c"," ","a","c","i","d">>>>,
     vitamin_a |-> <<<<"3","2","0">>, <<"V","I","T","A","_","R","A","E">>, <<"v","i","t","a","m","i","n"," ","a">>>>]

\* "term in text" for strings (case-sensitive)
ContainsExact(text, term) ==
    \E p \in 1..(Len(text) - Len(term) + 1) :
        \A j \in 1..Len(term) : text[p + j - 1] = term[j]

\* an entry of foodNutrients has the flat shape (nutrientId, nutrientName,
\* value, unitName) or the nested shape (nutrient: (id, name, unitName),
\* amount); a missing field reads as '' (0 for the value).  Identifiers
\* are kept as their str() text.
entry_nested(n, field) ==
    IF "nutrient" \in DOMAIN n /\ field \in DOMAIN n.nutrient
      THEN n.nutrient[field] ELSE <<>>

entry_id(n) ==
    IF "nutrientId" \in DOMAIN n THEN n.nutrientId ELSE entry_nested(n, "id")

entry_name_lower(n) ==
    Lower(IF "nutrientName" \in DOMAIN n THEN n.nutrientName
          ELSE entry_nested(n, "name"))

entry_value(n) ==
    IF "value" \in DOMAIN n THEN n.value
    ELSE IF "amount" \in DOMAIN n THEN n.amount ELSE Zero

entry_unit(n) ==
    IF "unitName" \in DOMAIN n THEN n.unitName ELSE entry_nested(n, "unitName")

\* the test of the inner loop: the identifier is one of the terms, or a
\* term occurs in the lower-cased name
entry_matches(n, terms) ==
    \/ \E t \in 1..Len(terms) : terms[t] = entry_id(n)
    \/ \E name_lower \in {entry_name_lower(n)} :
          \E t \in 1..Len(terms) : ContainsExact(name_lower, terms[t])

\* converted_value dividing a milligram or microgram value of every key
converted_value_every_key(key, n) ==
    LET u == Lower(entry_unit(n))
    IN  IF /\ u \in {<<"m","g">>, <<"m","i","l","l","i","g","r","a","m">>, <<"m","c","g">>, <<"m","i","c","r","o","g","r","a","m">>}
           /\ entry_value(n) # NoneValue
          THEN float_truediv(entry_value(n), 1000)
        ELSE entry_value(n)

\* is the value of the matched entry n divided by 1000 for key?
is_converted(key, n) ==
    LET u == Lower(entry_unit(n))
    IN  \/ u \in {<<"m","g">>, <<"m","i","l","l","i","g","r","a","m">>} /\ key \in {"sodium", "calcium", "iron"}
        \/ u \in {<<"m","c","g">>, <<"m","i","c","r","o","g","r","a","m">>} /\ key \in {"vitamin_a"}

\* the value stored for key from the matched entry n
converted_value(key, n) ==
    IF is_converted(key, n) THEN float_truediv(entry_value(n), 1000)
    ELSE entry_value(n)

\* first_match taking the last entry that matches instead of the first
last_match(entries, key) ==
    LET hits == {j \in 1..Len(entries) : entry_matches(entries[j], nutrient_mapping[key])}
    IN  IF hits = {} THEN 0 ELSE CHOOSE j \in hits : \A h \in hits : j >= h

\* index of the first entry of the list that matches key, 0 when none
first_match(entries, key) ==
    LET hits == {j \in 1..Len(entries) : entry_matches(entries[j], nutrient_mapping[key])}
    IN  IF hits = {} THEN 0 ELSE CHOOSE j \in hits : \A h \in hits : j <= h

\* extract_nutrients giving 0 to the keys without a match
extract_nutrients_zero_filled(food_data) ==
    IF "foodNutrients" \notin DOMAIN food_data THEN [k \in NutrientKeys |-> Zero]
    ELSE LET entries == food_data.foodNutrients
         IN  [k \in NutrientKeys |->
                IF first_match(entries, k) = 0 THEN Zero
                ELSE converted_value(k, entries[first_match(entries, k)])]

\* value / 1000 raises TypeError when the value of the entry is None: does
\* extract_nutrients raise on food_data?
extract_raises(food_data) ==
    /\ "foodNutrients" \in DOMAIN food_data
    /\ \E k \in NutrientKeys :
          LET entries == food_data.foodNutrients
              m       == first_match(entries, k)
          IN  m # 0 /\ entry_value(entries[m]) = NoneValue
                    /\ is_converted(k, entries[m])

\* extract_nutrients: a mapping whose keys are the keys with a match (the
\* value it gives when it does not raise)
extract_nutrients(food_data) ==
    IF "foodNutrients" \notin DOMAIN food_data THEN [k \in {} |-> Zero]
    ELSE LET entries == food_data.foodNutrients
             match   == [k \in NutrientKeys |-> first_match(entries, k)]
             found   == {k \in NutrientKeys : match[k] # 0}
         IN  [k \in found |-> converted_value(k, entries[match[k]])]

(***************************************************************************)
(* The lookup collaborator: the food database and the HTTP responses.      *)
(***************************************************************************)
\* records of the database, by fdcId
FoodDB ==
    <<  \* 1: nested entries
        [description  |-> "Sugars, granulated",
         foodNutrients |->
           << [nutrient |-> [id |-> <<"1","0","0","8">>, name |-> <<"E","n","e","r","g","y">>, unitName |-> <<"k","c","a","l">>],
               amount |-> float_of_int(387)],
              [nutrient |-> [id |-> <<"1","0","9","3">>, name |-> <<"S","o","d","i","u","m",","," ","N","a">>, unitName |-> <<"m","g">>],
               amount |-> float_of_int(500)] >>],
        \* 2: flat entries
        [description  |-> "Egg, whole, dried",
         foodNutrients |->
           << [nutrientId |-> <<"2","0","3">>, nutrientName |-> <<"P","r","o","t","e","i","n">>,
               unitName |-> <<"G">>, value |-> float_of_int(48)],
              [nutrientId |-> <<"2","0","8">>, nutrientName |-> <<"E","n","e","r","g","y">>,
               unitName |-> <<"K","C","A","L">>, value |-> float_of_int(400)],
              [nutrientId |-> <<"2","0","4">>, nutrientName |-> <<"T","o","t","a","l"," ","l","i","p","i","d"," ","(","f","a","t",")">>,
               unitName |-> <<"G">>, value |-> Float(5, 10)] >>],
        \* 3: no entry that any key recognises
        [description  |-> "Water, tap",
         foodNutrients |->
           << [nutrientId |-> <<"2","5","5">>, nutrientName |-> <<"W","a","t","e","r">>,
               unitName |-> <<"G">>, value |-> float_of_int(100)] >>],
        \* 4: an entry with a number and one whose amount is null
        [description  |-> "Milk, whole",
         foodNutrients |->
           << [nutrient |-> [id |-> <<"1","0","0","8">>, name |-> <<"E","n","e","r","g","y">>, unitName |-> <<"k","c","a","l">>],
               amount |-> float_of_int(61)],
              [nutrient |-> [id |-> <<"1","0","0","3">>, name |-> <<"P","r","o","t","e","i","n">>, unitName |-> <<"g">>],
               amount |-> NoneValue] >>],
        \* 5: an entry in milligrams whose value is null
        [description  |-> "Salt, table",
         foodNutrients |->
           << [nutrientId |-> <<"3","0","7">>, nutrientName |-> <<"S","o","d","i","u","m",","," ","N","a">>,
               unitName |-> <<"M","G">>, value |-> NoneValue] >>] >>

\* a candidate of a search result
Candidate(id) == [fdcId |-> id, description |-> FoodDB[id].description]

\* the responses requests.get can give to a search: an exception, a
\* status other than 200, or status 200 with a 'foods' list
SearchResponses ==
    { [kind |-> "exception"], [kind |-> "status", code |-> 500] }
    \cup { [kind |-> "ok", foods |-> f] :
             f \in { <<>>, <<Candidate(1)>>, <<Candidate(2), Candidate(1)>>,
                     <<Candidate(3)>>, <<Candidate(4)>>, <<Candidate(5)>> } }

\* search_food: the foods of a 200 response, [] otherwise
search_food(response) ==
    IF response.kind = "ok" THEN response.foods ELSE <<>>

\* the value None of get_food_details
NoDetails == [none |-> TRUE]

\* the responses requests.get can give to a details request for fdc_id
DetailsResponses(fdc_id) ==
    { [kind |-> "exception"], [kind |-> "status", code |-> 404],
      [kind |-> "ok", data |-> FoodDB[fdc_id]] }

\* get_food_details: the body of a 200 response, None otherwise
get_food_details(response) ==
    IF response.kind = "ok" THEN response.data ELSE NoDetails

(***************************************************************************)
(* The quantity multiplier and the scaling of analyze_recipe_nutrition.    *)
(***************************************************************************)
\* grams per unit in the if/elif chain; the else branch is 50
grams_per_unit(unit) ==
    CASE unit \in {"cup", "cups"} -> float_of_int(240)
      [] unit \in {"tbsp", "tablespoon", "tablespoons"} -> float_of_int(15)
      [] unit \in {"tsp", "teaspoon", "teaspoons"} -> float_of_int(5)
      [] unit \in {"oz", "ounce", "ounces"} -> Float(2835, 100)
      [] unit \in {"lb", "pound", "pounds"} -> Float(45359, 100)
      [] unit \in {"g", "gram", "grams"} -> float_of_int(1)
      [] OTHER -> float_of_int(50)

\* the try block: float(quantity) times the grams of the unit; when
\* float() raises ValueError the handler sets the multiplier to 1.0
quantity_multiplier(quantity, unit) ==
    LET q == IF quantity # <<>> THEN python_float(quantity) ELSE float_of_int(1)
    IN  IF q = ValueError THEN float_of_int(1)
        ELSE float_mul(q, grams_per_unit(unit))

\* value * qty_multiplier raises TypeError when an extracted value is None
scale_raises(nutrients) == \E k \in DOMAIN nutrients : nutrients[k] = NoneValue

\* the keys of nutrient_mapping in the order of the dict, which is the order
\* of the keys of the extracted mapping
KeyOrder ==
    <<"calories", "protein", "fat", "carbs", "fiber", "sugar", "sodium",
      "calcium", "iron", "vitamin_c", "vitamin_a">>

\* the extracted values the loop of lines 372-376 scales before the None
\* that raises: those of the keys that come before it
scaled_before_raise(nutrients) ==
    LET before == { n \in 1..Len(KeyOrder) :
                      \A m \in 1..n : KeyOrder[m] \in DOMAIN nutrients
                                         => nutrients[KeyOrder[m]] # NoneValue }
    IN  [k \in { KeyOrder[n] : n \in before } \cap DOMAIN nutrients |-> nutrients[k]]

\* scaled_value = value * qty_multiplier / 100 for every extracted key
scale_nutrients(nutrients, qty_multiplier) ==
    [k \in DOMAIN nutrients |->
        float_truediv(float_mul(nutrients[k], qty_multiplier), 100)]

\* add_to_total storing the scaled values in place of the running totals
add_to_total_overwriting(total, scaled) ==
    [k \in DOMAIN total |-> IF k \in DOMAIN scaled THEN scaled[k] ELSE total[k]]

\* total_nutrients after adding the scaled values
add_to_total(total, scaled) ==
    [k \in DOMAIN total |->
        IF k \in DOMAIN scaled THEN float_add(total[k], scaled[k]) ELSE total[k]]

\* the default of the servings parameter of analyze_recipe_nutrition
DefaultServings == 8

\* per_serving_of dividing by the default serving count, not the argument
per_serving_of_default(total, servings) ==
    [k \in DOMAIN total |-> float_truediv(total[k], DefaultServings)]

\* per_serving[nutrient] = total / servings (servings # 0)
per_serving_of(total, servings) ==
    [k \in DOMAIN total |-> float_truediv(total[k], servings)]

(***************************************************************************)
(* The serving text of process_single_recipe.                              *)
(***************************************************************************)
unknown_patterns ==
    {<<"u","n","k","n","o","w","n">>, <<"n","o","t"," ","m","e","n","t","i","o","n","e","d">>, <<"n","/","a">>, <<"n","o","n","e">>, <<"u","n","s","p","e","c","i","f","i","e","d">>,
     <<"n","o","t"," ","s","p","e","c","i","f","i","e","d">>, <<"n","o","t"," ","g","i","v","e","n">>, <<"m","i","s","s","i","n","g">>, <<"b","l","a","n","k">>, <<>>,
     <<"n","u","l","l">>, <<"u","n","d","e","f","i","n","e","d">>, <<"t","b","d">>, <<"t","o"," ","b","e"," ","d","e","t","e","r","m","i","n","e","d">>}

serving_terms ==
    {<<"s","e","r","v","i","n","g">>, <<"c","o","o","k","i","e">>, <<"s","l","i","c","e">>, <<"p","i","e","c","e">>, <<"l","o","a","f">>, <<"c","a","k","e">>,
     <<"b","a","r">>, <<"c","u","p">>, <<"p","o","r","t","i","o","n">>}

time_units ==
    {<<"m","i","n","u","t","e">>, <<"h","o","u","r">>, <<"s","e","c","o","n","d">>, <<"m","i","n">>, <<"h","r">>, <<"s","e","c">>}

\* is_meaningful of use_estimated_if_needed
is_meaningful(value, field_name) ==
    IF value = NoneValue \/ value = <<>> THEN FALSE
    ELSE LET value_str   == Lower(strip(value))
             has_numbers == \E j \in 1..Len(value_str) : isdigit(value_str[j])
         IN  IF value_str \in unknown_patterns THEN FALSE
             ELSE IF field_name = "servings"
               THEN has_numbers \/ \E t \in serving_terms : ContainsExact(value_str, t)
             ELSE IF field_name \in {"prep_time", "cook_time"}
               THEN has_numbers /\ \E t \in time_units : ContainsExact(value_str, t)
             ELSE TRUE

\* use_estimated_if_needed
use_estimated_if_needed(original, estimated, field_name) ==
    IF is_meaningful(original, field_name) THEN original ELSE estimated

\* the serving texts recipe structuring can return for a recipe
StructuredServings == {NoneValue, <<"U","n","k","n","o","w","n">>, <<"2","4"," ","c","o","o","k","i","e","s">>}

\* the titles of the recipes of the model
Titles ==
    {<<"S","u","g","a","r"," ","C","o","o","k","i","e","s">>, <<"B","a","n","a","n","a"," ","B","r","e","a","d">>, <<"A","p","p","l","e"," ","P","i","e">>, <<"F","u","d","g","e"," ","B","r","o","w","n","i","e","s">>,
     <<"R","h","u","b","a","r","b"," ","C","r","i","s","p">>, <<"P","o","t"," ","R","o","a","s","t">>}

\* what a call of ask_gpt can come to: a critical API error (the flag is
\* set and None is returned), another error ('' is returned), an answer
\* without a JSON object, an answer whose braces hold no valid JSON, or an
\* answer that holds one of the given JSON objects
ChatReplies(objects) ==
    { [kind |-> k] : k \in {"critical_error", "error", "text", "bad_json"} }
    \cup { [kind |-> "json", data |-> d] : d \in objects }

\* check_api_error_and_exit: is the error of the call a critical one?
check_api_error_and_exit(reply) == reply.kind = "critical_error"

\* the JSON objects the language model gives to the estimation prompt: one
\* with every field asked for and one without the field servings
EstimationObjects ==
    { [servings |-> <<"8"," ","s","e","r","v","i","n","g","s">>, prep_time |-> <<"2","0"," ","m","i","n","u","t","e","s">>,
       cook_time |-> <<"4","5"," ","m","i","n","u","t","e","s">>],
      [prep_time |-> <<"1","0"," ","m","i","n","u","t","e","s">>, cook_time |-> <<"1"," ","h","o","u","r">>] }

\* the replies to the estimation prompt after which estimate_recipe_details
\* returns; after a critical error line 810 slices None and raises
EstimationReplies ==
    { r \in ChatReplies(EstimationObjects) : ~check_api_error_and_exit(r) }

\* any(word in title_lower for word in words)
any_word_in(words, title_lower) == \E w \in words : ContainsExact(title_lower, w)

\* the fallback estimates by recipe type, lines 828-871
fallback_estimate(title_lower) ==
    IF any_word_in({<<"c","o","o","k","i","e">>, <<"c","o","o","k","i","e","s">>}, title_lower)
      THEN [servings |-> <<"2","4"," ","c","o","o","k","i","e","s">>, prep_time |-> <<"1","5"," ","m","i","n","u","t","e","s">>,
            cook_time |-> <<"1","2"," ","m","i","n","u","t","e","s">>]
    ELSE IF any_word_in({<<"c","a","k","e">>, <<"b","r","e","a","d">>}, title_lower)
      THEN [servings |-> <<"8"," ","s","e","r","v","i","n","g","s">>, prep_time |-> <<"2","0"," ","m","i","n","u","t","e","s">>,
            cook_time |-> <<"4","5"," ","m","i","n","u","t","e","s">>]
    ELSE IF any_word_in({<<"p","i","e">>, <<"t","a","r","t">>}, title_lower)
      THEN [servings |-> <<"8"," ","s","e","r","v","i","n","g","s">>, prep_time |-> <<"3","0"," ","m","i","n","u","t","e","s">>,
            cook_time |-> <<"1"," ","h","o","u","r">>]
    ELSE IF any_word_in({<<"b","r","o","w","n","i","e">>, <<"b","r","o","w","n","i","e","s">>}, title_lower)
      THEN [servings |-> <<"1","6"," ","b","r","o","w","n","i","e","s">>, prep_time |-> <<"1","5"," ","m","i","n","u","t","e","s">>,
            cook_time |-> <<"2","5"," ","m","i","n","u","t","e","s">>]
    ELSE IF any_word_in({<<"b","a","r">>, <<"b","a","r","s">>}, title_lower)
      THEN [servings |-> <<"1","6"," ","b","a","r","s">>, prep_time |-> <<"1","5"," ","m","i","n","u","t","e","s">>,
            cook_time |-> <<"2","5"," ","m","i","n","u","t","e","s">>]
    ELSE [servings |-> <<"8"," ","s","e","r","v","i","n","g","s">>, prep_time |-> <<"2","0"," ","m","i","n","u","t","e","s">>,
          cook_time |-> <<"3","0"," ","m","i","n","u","t","e","s">>]

\* estimate_recipe_details on a reply that is not a critical error: the
\* JSON object of the answer as it is, else the fallback by the title
estimate_recipe_details(reply, title) ==
    IF reply.kind = "json" THEN reply.data
    ELSE fallback_estimate(Lower(title))

\* estimated_details.get(field_name, 'Unknown')
estimated_field(estimated_details, field_name) ==
    IF field_name \in DOMAIN estimated_details THEN estimated_details[field_name]
    ELSE <<"U","n","k","n","o","w","n">>

\* the servings a direct caller of analyze_recipe_nutrition passes
ServingsArguments == {0, 4}

(***************************************************************************)
(* The ingredient lines of the recipes of the model.                       *)
(***************************************************************************)
Lines ==
    { <<"1","/","2"," ","c","u","p"," ","s","u","g","a","r">>, <<"1"," ","c","u","p"," ","s","u","g","a","r">>, <<"4"," ","e","g","g","s">>, <<"(","g","a","r","n","i","s","h",")">>,
      <<"1","/","0"," ","c","u","p"," ","s","u","g","a","r">> }

\* all sequences over S of length at most n
SeqsUpTo(S, n) == UNION {[1..m -> S] : m \in 0..n}

(***************************************************************************)
(* State.  The variables of the aggregation are the parameters and locals  *)
(* of analyze_recipe_nutrition; log is the sequence of warnings it wrote.  *)
(* The locals of one iteration (quantity .. scaled_nutrients) are assigned *)
(* before they are read in every iteration, so they are dead when control  *)
(* is back at the for statement; the model clears them there.              *)
(***************************************************************************)
VARIABLES
    pc,                 \* position of the program
    caller,             \* "none", "api" (a direct call) or "label"
    recipe_servings,    \* recipe_data['servings'] of the recipe in process
    ingredients,        \* the ingredient lines of the recipe
    servings,           \* parameter servings
    i,                  \* number of lines the for loop has taken
    quantity, unit, food_name,
    search_results,
    food_details,
    nutrients,
    qty_multiplier,
    scaled_nutrients,
    total_nutrients,
    ingredient_results,
    per_serving,
    outcome,            \* "none", "returned" or the name of the error raised
    label,              \* what generate_nutrition_label returned
    log,                \* the warnings written, in order
    lookups,            \* the calls of search_food and get_food_details
                        \* this analysis has made, in order
    parse_input,        \* argument of a direct parse_ingredient call
    parse_output,       \* its result
    processed_images,   \* the processed log: image -> entry
    processed_count,    \* self.processed_count
    failed_count,       \* self.failed_count
    invocations,        \* number of program runs started so far
    run,                \* the batch function in execution and its locals
    result,             \* what the last call on one image returned
    calls,              \* the calls on one image made in this run, in order
    attempted,          \* the images this run went to work on, in order
    product_dirs,       \* images with a product folder that holds Recipe.txt
    bare_dirs,          \* images with a product folder without Recipe.txt
    product_images,     \* images whose two product images were generated
    api_error_detected, \* the global flag set by check_api_error_and_exit
    written             \* the success flags of the log entries written by
                        \* mark_image_processed in this run, in order

iteration_vars ==
    <<quantity, unit, food_name, search_results, food_details, nutrients,
      qty_multiplier, scaled_nutrients>>

aggregation_vars ==
    <<ingredients, servings, i, quantity, unit, food_name, search_results,
      food_details, nutrients, qty_multiplier, scaled_nutrients,
      total_nutrients, ingredient_results, per_serving, outcome, log,
      lookups>>

parse_vars == <<parse_input, parse_output>>

\* the pipeline without the flag of a critical API error
batch_vars ==
    <<processed_images, processed_count, failed_count, invocations, run,
      result, calls, attempted, product_dirs, bare_dirs, product_images,
      written>>

pipeline_vars == <<batch_vars, api_error_detected>>

vars ==
    <<pc, caller, recipe_servings, label, aggregation_vars, parse_vars,
      pipeline_vars>>

NoNutrients == [k \in {} |-> Zero]

\* no label has been returned
NoLabel == [none |-> TRUE]

\* the label of a recipe whose nutrition is not known
UnknownLabel ==
    [calories |-> <<"U","n","k","n","o","w","n">>, fat |-> <<"U","n","k","n","o","w","n">>, carbs |-> <<"U","n","k","n","o","w","n">>,
     protein |-> <<"U","n","k","n","o","w","n">>]

\* the JSON objects the language model gives to the nutrition prompt
NutritionObjects ==
    { [calories |-> 300, fat |-> <<"1","2","g">>, carbs |-> <<"4","5","g">>, protein |-> <<"5","g">>,
       fiber |-> <<"2","g">>, sugar |-> <<"2","5","g">>, sodium |-> <<"2","0","0","m","g">>] }

\* the replies to the nutrition prompt of the except branch
NutritionReplies == ChatReplies(NutritionObjects)

\* the except branch of generate_nutrition_label after ask_gpt, lines
\* 717-724: the JSON object of the answer, else the label of unknowns
fallback_label(reply) ==
    IF reply.kind = "json" THEN reply.data ELSE UnknownLabel

\* the return statement of lines 689-697
formatted_label(per_serving_values) ==
    [calories |-> format_f(per_serving_values["calories"], 0),
     fat      |-> format_f(per_serving_values["fat"], 1) \o <<"g">>,
     carbs    |-> format_f(per_serving_values["carbs"], 1) \o <<"g">>,
     protein  |-> format_f(per_serving_values["protein"], 1) \o <<"g">>,
     fiber    |-> format_f(per_serving_values["fiber"], 1) \o <<"g">>,
     sugar    |-> format_f(per_serving_values["sugar"], 1) \o <<"g">>,
     sodium   |-> format_f(per_serving_values["sodium"], 0) \o <<"m","g">>]

NoParse == [quantity |-> <<>>, unit |-> "", food_name |-> <<>>]

\* no batch function is in execution
NoRun == [mode |-> "none"]

\* a RecipeProcessor before any run, with an empty processed log
PipelineIdle ==
    /\ processed_images = [k \in {} |-> TRUE]
    /\ processed_count = 0
    /\ failed_count = 0
    /\ invocations = 0
    /\ run = NoRun
    /\ result = "none"
    /\ calls = <<>>
    /\ attempted = <<>>
    /\ product_dirs = {}
    /\ bare_dirs = {}
    /\ product_images = {}
    /\ api_error_detected = FALSE
    /\ written = <<>>

\* control is back at the for statement: the locals of the iteration are dead
end_iteration ==
    /\ pc' = "loop"
    /\ quantity' = <<>> /\ unit' = "" /\ food_name' = <<>>
    /\ search_results' = <<>>
    /\ food_details' = NoDetails
    /\ nutrients' = NoNutrients
    /\ qty_multiplier' = Zero
    /\ scaled_nutrients' = NoNutrients

\* the warning w is written and the line is left by continue
skip_line(w) ==
    /\ log' = Append(log, w)
    /\ end_iteration

\* the state before any call, for a recipe with the given ingredient lines
Idle(lines) ==
    /\ caller = "none"
    /\ recipe_servings = NoneValue
    /\ ingredients = lines
    /\ servings = DefaultServings
    /\ i = 0
    /\ quantity = <<>> /\ unit = "" /\ food_name = <<>>
    /\ search_results = <<>>
    /\ food_details = NoDetails
    /\ nutrients = NoNutrients
    /\ qty_multiplier = Zero
    /\ scaled_nutrients = NoNutrients
    /\ total_nutrients = [k \in NutrientKeys |-> Zero]
    /\ ingredient_results = <<>>
    /\ per_serving = NoNutrients
    /\ outcome = "none"
    /\ label = NoLabel
    /\ log = <<>>
    /\ lookups = <<>>
    /\ PipelineIdle

Init ==
    /\ pc = "idle"
    /\ \E lines \in SeqsUpTo(Lines, MaxLines) : Idle(lines)
    /\ parse_input = <<>>
    /\ parse_output = NoParse

(***************************************************************************)
(* process_single_recipe, lines 1325-1329 and 1357: the serving text of    *)
(* the recipe is settled, then the nutrition label is asked for.           *)
(***************************************************************************)
merge_servings ==
    /\ pc = "idle"
    /\ \E original \in StructuredServings, reply \in EstimationReplies, title \in Titles :
          \E estimated_details \in {estimate_recipe_details(reply, title)} :
             recipe_servings' =
                use_estimated_if_needed(original,
                    estimated_field(estimated_details, "servings"), "servings")
    /\ caller' = "label"
    /\ pc' = "label"
    /\ UNCHANGED <<label, aggregation_vars, parse_vars, pipeline_vars>>

\* lines 299-305 of analyze_recipe_nutrition, entered with servings sv
enter_analysis(sv) ==
    /\ servings' = sv
    /\ total_nutrients' = [k \in NutrientKeys |-> Zero]
    /\ ingredient_results' = <<>>
    /\ i' = 0
    /\ lookups' = <<>>
    /\ pc' = "loop"
    /\ UNCHANGED <<ingredients, quantity, unit, food_name, search_results,
                   food_details, nutrients, qty_multiplier, scaled_nutrients,
                   per_serving, outcome, log>>

\* generate_nutrition_label up to its call of analyze_recipe_nutrition,
\* which passes the ingredient list and no servings argument
generate_nutrition_label ==
    /\ pc = "label"
    /\ IF ingredients = <<>>
         THEN /\ label' = UnknownLabel
              /\ pc' = "returned"
              /\ UNCHANGED aggregation_vars
         ELSE /\ enter_analysis(DefaultServings)
              /\ UNCHANGED label
    /\ UNCHANGED <<caller, recipe_servings, parse_vars, pipeline_vars>>

\* a direct call analyze_recipe_nutrition(ingredients, servings)
analyze_recipe_nutrition ==
    /\ pc = "idle"
    /\ \E sv \in ServingsArguments : enter_analysis(sv)
    /\ caller' = "api"
    /\ UNCHANGED <<recipe_servings, label, parse_vars, pipeline_vars>>

(***************************************************************************)
(* The loop of analyze_recipe_nutrition, one action per step between two   *)
(* calls of the lookup collaborator.                                       *)
(***************************************************************************)
\* parse_ingredient of every line of the model, computed once
parsed_lines == [line \in Lines |-> parse_ingredient(line)]

\* extract_nutrients of every record of the database, computed once:
\* whether it raises, and the mapping it returns when it does not
extracted_records ==
    [food_data \in {FoodDB[id] : id \in DOMAIN FoodDB} |->
        IF extract_raises(food_data)
          THEN [raises |-> TRUE, nutrients |-> NoNutrients]
        ELSE [raises |-> FALSE, nutrients |-> extract_nutrients(food_data)]]

\* an exception leaves analyze_recipe_nutrition: the caller of a direct
\* call sees it, generate_nutrition_label catches it
raise_error(name) ==
    /\ outcome' = name
    /\ pc' = IF caller = "label" THEN "format" ELSE "done"

\* parse_step without the test of lines 314-316: a line with an empty food
\* name goes on to be searched
parse_step_searching_every_line ==
    /\ pc = "loop"
    /\ i < Len(ingredients)
    /\ \E parsed \in {parsed_lines[ingredients[i + 1]]} :
           /\ quantity' = parsed.quantity
           /\ unit' = parsed.unit
           /\ food_name' = parsed.food_name
           /\ pc' = "search"
           /\ UNCHANGED <<log, search_results, food_details, nutrients,
                          qty_multiplier, scaled_nutrients>>
    /\ i' = i + 1
    /\ UNCHANGED <<caller, recipe_servings, label, ingredients, servings,
                   total_nutrients, ingredient_results, per_serving, outcome,
                   lookups, parse_vars, pipeline_vars>>

\* the for statement takes the next line; lines 311-316
parse_step ==
    /\ pc = "loop"
    /\ i < Len(ingredients)
    /\ \E parsed \in {parsed_lines[ingredients[i + 1]]} :
           IF parsed.food_name = <<>>
             THEN skip_line("no_food_name")
             ELSE /\ quantity' = parsed.quantity
                  /\ unit' = parsed.unit
                  /\ food_name' = parsed.food_name
                  /\ pc' = "search"
                  /\ UNCHANGED <<log, search_results, food_details, nutrients,
                                 qty_multiplier, scaled_nutrients>>
    /\ i' = i + 1
    /\ UNCHANGED <<caller, recipe_servings, label, ingredients, servings,
                   total_nutrients, ingredient_results, per_serving, outcome,
                   lookups, parse_vars, pipeline_vars>>

\* a call of the lookup collaborator made for the line in process
lookup_call(name) == [line |-> i, call |-> name]

\* lines 319-323: search_food and the test of its result
search_step ==
    /\ pc = "search"
    /\ \E response \in SearchResponses :
          /\ lookups' = Append(lookups, lookup_call("search_food"))
          /\ IF search_food(response) = <<>>
               THEN skip_line("no_results")
               ELSE /\ search_results' = search_food(response)
                    /\ pc' = "details"
                    /\ UNCHANGED <<log, quantity, unit, food_name, food_details,
                                   nutrients, qty_multiplier, scaled_nutrients>>
    /\ UNCHANGED <<caller, recipe_servings, label, ingredients, servings, i,
                   total_nutrients, ingredient_results, per_serving, outcome,
                   parse_vars, pipeline_vars>>

\* best_match taking the last candidate of the search result
last_candidate == search_results[Len(search_results)]

\* best_match = search_results[0]
best_match == search_results[1]

\* lines 326-337: get_food_details of the first candidate and the test
details_step ==
    /\ pc = "details"
    /\ lookups' = Append(lookups, lookup_call("get_food_details"))
    /\ \E response \in DetailsResponses(best_match.fdcId) :
          IF get_food_details(response) = NoDetails
            THEN skip_line("no_details")
            ELSE /\ food_details' = get_food_details(response)
                 /\ pc' = "extract"
                 /\ UNCHANGED <<log, quantity, unit, food_name, search_results,
                                nutrients, qty_multiplier, scaled_nutrients>>
    /\ UNCHANGED <<caller, recipe_servings, label, ingredients, servings, i,
                   total_nutrients, ingredient_results, per_serving, outcome,
                   parse_vars, pipeline_vars>>

\* lines 340-344: extract_nutrients, which raises TypeError when it
\* divides a value that is None, and the test of its result
extract_step ==
    /\ pc = "extract"
    /\ IF extracted_records[food_details].raises
         THEN /\ raise_error("TypeError")
              /\ UNCHANGED <<log, iteration_vars>>
         ELSE /\ UNCHANGED outcome
              /\ \E extracted \in {extracted_records[food_details].nutrients} :
                   IF extracted = NoNutrients
                     THEN skip_line("no_nutrients")
                     ELSE /\ nutrients' = extracted
                          /\ pc' = "scale"
                          /\ UNCHANGED <<log, quantity, unit, food_name,
                                         search_results, food_details,
                                         qty_multiplier, scaled_nutrients>>
    /\ UNCHANGED <<caller, recipe_servings, label, ingredients, servings, i,
                   total_nutrients, ingredient_results, per_serving,
                   lookups, parse_vars, pipeline_vars>>

\* the entry appended to ingredient_results, lines 378-386
result_entry(scaled) ==
    [ingredient  |-> ingredients[i],
     food_name   |-> food_name,
     quantity    |-> quantity,
     unit        |-> unit,
     fdc_id      |-> best_match.fdcId,
     description |-> best_match.description,
     nutrients   |-> scaled]

\* scale_step putting the new entry at the head of ingredient_results
scale_step_newest_first ==
    /\ pc = "scale"
    /\ log' = IF quantity # <<>> /\ python_float(quantity) = ValueError
                THEN Append(log, "bad_quantity") ELSE log
    /\ IF scale_raises(nutrients)
         THEN /\ raise_error("TypeError")
              /\ \E qm \in {quantity_multiplier(quantity, unit)} :
                   \E scaled \in {scale_nutrients(scaled_before_raise(nutrients), qm)} :
                      /\ qty_multiplier' = qm
                      /\ scaled_nutrients' = scaled
                      /\ total_nutrients' = add_to_total(total_nutrients, scaled)
              /\ UNCHANGED <<quantity, unit, food_name, search_results,
                             food_details, nutrients, ingredient_results>>
         ELSE /\ \E qm \in {quantity_multiplier(quantity, unit)} :
                   \E scaled \in {scale_nutrients(nutrients, qm)} :
                      /\ total_nutrients' = add_to_total(total_nutrients, scaled)
                      /\ ingredient_results' = <<result_entry(scaled)>> \o ingredient_results
              /\ end_iteration
              /\ UNCHANGED outcome
    /\ UNCHANGED <<caller, recipe_servings, label, ingredients, servings, i,
                   per_serving, lookups, parse_vars, pipeline_vars>>

\* lines 346-388: the multiplier, the scaling, the totals and the entry;
\* value * qty_multiplier raises TypeError when an extracted value is None,
\* after the values before it were scaled and added to the totals
scale_step ==
    /\ pc = "scale"
    /\ log' = IF quantity # <<>> /\ python_float(quantity) = ValueError
                THEN Append(log, "bad_quantity") ELSE log
    /\ IF scale_raises(nutrients)
         THEN /\ raise_error("TypeError")
              /\ \E qm \in {quantity_multiplier(quantity, unit)} :
                   \E scaled \in {scale_nutrients(scaled_before_raise(nutrients), qm)} :
                      /\ qty_multiplier' = qm
                      /\ scaled_nutrients' = scaled
                      /\ total_nutrients' = add_to_total(total_nutrients, scaled)
              /\ UNCHANGED <<quantity, unit, food_name, search_results,
                             food_details, nutrients, ingredient_results>>
         ELSE /\ \E qm \in {quantity_multiplier(quantity, unit)} :
                   \E scaled \in {scale_nutrients(nutrients, qm)} :
                      /\ total_nutrients' = add_to_total(total_nutrients, scaled)
                      /\ ingredient_results' = Append(ingredient_results, result_entry(scaled))
              /\ end_iteration
              /\ UNCHANGED outcome
    /\ UNCHANGED <<caller, recipe_servings, label, ingredients, servings, i,
                   per_serving, lookups, parse_vars, pipeline_vars>>

\* lines 390-406: the per-serving division and the return; the division
\* raises ZeroDivisionError when servings is 0
finish_step ==
    /\ pc = "loop"
    /\ i = Len(ingredients)
    /\ IF servings = 0
         THEN /\ outcome' = "ZeroDivisionError"
              /\ UNCHANGED per_serving
         ELSE /\ outcome' = "returned"
              /\ per_serving' = per_serving_of(total_nutrients, servings)
    /\ pc' = IF caller = "label" THEN "format" ELSE "done"
    /\ UNCHANGED <<caller, recipe_servings, label, ingredients, servings, i,
                   quantity, unit, food_name, search_results, food_details,
                   nutrients, qty_multiplier, scaled_nutrients,
                   total_nutrients, ingredient_results, log, lookups,
                   parse_vars, pipeline_vars>>

\* generate_nutrition_label after the call, lines 687-724: the label is
\* formatted from per_serving; when the analysis raised, the except branch
\* asks the language model, whose critical error sets the flag
format_label ==
    /\ pc = "format"
    /\ IF outcome = "returned"
         THEN /\ label' = formatted_label(per_serving)
              /\ UNCHANGED api_error_detected
         ELSE \E reply \in NutritionReplies :
                 /\ label' = fallback_label(reply)
                 /\ api_error_detected' =
                       (api_error_detected \/ check_api_error_and_exit(reply))
    /\ pc' = "returned"
    /\ UNCHANGED <<caller, recipe_servings, aggregation_vars, parse_vars, batch_vars>>

Next ==
    \/ merge_servings
    \/ generate_nutrition_label
    \/ analyze_recipe_nutrition
    \/ parse_step
    \/ search_step
    \/ details_step
    \/ extract_step
    \/ scale_step
    \/ finish_step
    \/ format_label

Spec == Init /\ [][Next]_vars

(***************************************************************************)
(* parse_ingredient called on its own, on ingredient lines put together    *)
(* from a quantity, a unit token and a food word.                          *)
(***************************************************************************)
FractionTexts == { <<"3","/","4">>, <<"1","/","2">>, <<"1","0","/","3">>, <<"2","/","1","6">>, <<"U+0663","/","U+0664">> }

IntegerTexts == { <<"2">>, <<"1","2">>, <<"1">>, <<"3","0","0">>, <<"U+0663">> }

\* unit tokens as written in a line, with the unit each is a token of
UnitTokens ==
    { [text |-> <<"c",".">>,          name |-> "cup"],
      [text |-> <<"c">>,           name |-> "cup"],
      [text |-> <<"C","u","p">>,         name |-> "cup"],
      [text |-> <<"c","u","p","s">>,        name |-> "cup"],
      [text |-> <<"t","b","s","p",".">>,       name |-> "tablespoon"],
      [text |-> <<"T","b","s","p">>,        name |-> "tablespoon"],
      [text |-> <<"t","a","b","l","e","s","p","o","o","n","s">>, name |-> "tablespoon"],
      [text |-> <<"t","s","p",".">>,        name |-> "teaspoon"],
      [text |-> <<"t","e","a","s","p","o","o","n">>,    name |-> "teaspoon"],
      [text |-> <<"o","z",".">>,         name |-> "ounce"],
      [text |-> <<"o","u","n","c","e","s">>,      name |-> "ounce"],
      [text |-> <<"l","b",".">>,         name |-> "pound"],
      [text |-> <<"p","o","u","n","d","s">>,      name |-> "pound"],
      [text |-> <<"g">>,           name |-> "gram"],
      [text |-> <<"g","r","a","m","s">>,       name |-> "gram"],
      [text |-> <<"p","i","n","t">>,        name |-> "pint"],
      [text |-> <<"q","t",".">>,         name |-> "quart"],
      [text |-> <<"g","a","l",".">>,        name |-> "gallon"] }

\* food words; none of them is or contains a unit token or a modifier
FoodWords == { <<"b","u","t","t","e","r">>, <<"e","g","g","s">>, <<"s","u","g","a","r">>, <<"G","a","r","l","i","c">>, <<"c","o","c","o","a">>, <<"g","é","l","a","t","i","n","e">> }

\* lines "fraction unit food"
FractionLines ==
    { q \o <<" ">> \o u.text \o <<" ">> \o f :
        q \in FractionTexts, u \in UnitTokens, f \in FoodWords }

\* lines "integer food"
CountLines == { q \o <<" ">> \o f : q \in IntegerTexts, f \in FoodWords }

\* lines "integer unit food"
UnitLines ==
    { q \o <<" ">> \o u.text \o <<" ">> \o f :
        q \in IntegerTexts, u \in UnitTokens, f \in FoodWords }

\* lines whose leading fraction has the denominator 0
ZeroDenominatorLines == { <<"1","/","0"," ","c","u","p"," ","s","u","g","a","r">>, <<"3","/","0"," ","e","g","g","s">> }

\* unit tokens without a period, for lines with two unit tokens
PlainUnitTokens ==
    { [text |-> <<"c">>,    name |-> "cup"],
      [text |-> <<"c","u","p","s">>, name |-> "cup"],
      [text |-> <<"t","b","s","p">>, name |-> "tablespoon"],
      [text |-> <<"t","s","p">>,  name |-> "teaspoon"],
      [text |-> <<"o","z">>,   name |-> "ounce"],
      [text |-> <<"g">>,    name |-> "gram"],
      [text |-> <<"p","i","n","t">>, name |-> "pint"] }

\* the pairs of tokens of two different units
UnitTokenPairs ==
    { p \in PlainUnitTokens \X PlainUnitTokens : p[1].name # p[2].name }

\* lines "integer unit unit food" with tokens of two different units
TwoUnitLines ==
    { q \o <<" ">> \o p[1].text \o <<" ">> \o p[2].text \o <<" ">> \o f :
        q \in {<<"2">>}, p \in UnitTokenPairs, f \in {<<"s","u","g","a","r">>, <<"m","i","l","k">>} }

\* leading fillers as written in a line: phrases of prefixes_to_remove, an
\* adjective of the modifier pattern, a parenthesised aside
Fillers ==
    { <<"a","t"," ","l","e","a","s","t">>, <<"a","b","o","u","t">>, <<"a","p","p","r","o","x","i","m","a","t","e","l","y">>, <<"c","h","o","p","p","e","d">>, <<"A","b","o","u","t">>,
      <<"f","r","e","s","h">>, <<"(","o","p","t","i","o","n","a","l",")">> }

\* one or two fillers, separated by a space
FillerPrefixes ==
    Fillers \cup { a \o <<" ">> \o b : a \in Fillers, b \in Fillers }

\* lines "fillers 2 cups flour"
FillerLines == { p \o <<" ","2"," ","c","u","p","s"," ","f","l","o","u","r">> : p \in FillerPrefixes }

ParseInputs ==
    FractionLines \cup CountLines \cup UnitLines \cup ZeroDenominatorLines
        \cup TwoUnitLines \cup FillerLines

ParseInit ==
    /\ pc = "parse"
    /\ Idle(<<>>)
    /\ parse_input \in ParseInputs
    /\ parse_output = NoParse

\* quantity, unit, food_name = parse_ingredient(parse_input)
parse_call ==
    /\ pc = "parse"
    /\ parse_output' = parse_ingredient(parse_input)
    /\ pc' = "parsed"
    /\ UNCHANGED <<caller, recipe_servings, label, aggregation_vars, parse_input,
                   pipeline_vars>>

SpecParse == ParseInit /\ [][parse_call]_vars


(***************************************************************************)
(* extract_nutrients called on its own: on food records with one entry of  *)
(* foodNutrients in either shape, on records with several entries of which *)
(* more than one can match a key, and on a record without foodNutrients.   *)
(***************************************************************************)
\* nutrient names with their identifiers
EntryNames ==
    { [id |-> <<"1","0","9","3">>, name |-> <<"S","o","d","i","u","m",","," ","N","a">>],
      [id |-> <<"1","0","8","7">>, name |-> <<"C","a","l","c","i","u","m",","," ","C","a">>],
      [id |-> <<"1","0","8","9">>, name |-> <<"I","r","o","n",","," ","F","e">>],
      [id |-> <<"3","2","0">>,  name |-> <<"V","i","t","a","m","i","n"," ","A",","," ","R","A","E">>],
      [id |-> <<"4","0","1">>,  name |-> <<"V","i","t","a","m","i","n"," ","C",","," ","t","o","t","a","l"," ","a","s","c","o","r","b","i","c"," ","a","c","i","d">>],
      [id |-> <<"2","0","3">>,  name |-> <<"P","r","o","t","e","i","n">>],
      [id |-> <<"1","0","0","8">>, name |-> <<"E","n","e","r","g","y">>] }

\* unit names of an entry
EntryUnits ==
    { <<"m","g">>, <<"M","G">>, <<"m","i","l","l","i","g","r","a","m">>, <<"m","c","g">>, <<"M","C","G">>, <<"m","i","c","r","o","g","r","a","m">>,
      <<"g">>, <<"G">>, <<"k","c","a","l">>, <<"k","J">>, <<"I","U">>, <<>> }

\* values of an entry
EntryValues == { float_of_int(500), float_of_int(900), Float(25, 10), Zero, NoneValue }

\* the flat shape of an entry
FlatEntry(e, u, v) ==
    [nutrientId |-> e.id, nutrientName |-> e.name, unitName |-> u, value |-> v]

\* the nested shape of an entry
NestedEntry(e, u, v) ==
    [nutrient |-> [id |-> e.id, name |-> e.name, unitName |-> u], amount |-> v]

\* records with one entry
SingleEntryRecords ==
    { [description |-> "food", foodNutrients |-> <<n>>] :
        n \in { FlatEntry(e, u, v) : e \in EntryNames, u \in EntryUnits, v \in EntryValues }
              \cup { NestedEntry(e, u, v) :
                       e \in EntryNames, u \in EntryUnits, v \in EntryValues } }

\* entries of which several match the same key (energy in kcal and in kJ,
\* total fat and a fatty acid class), one that matches two keys, and one
\* that matches none
PoolEntries ==
    { FlatEntry([id |-> <<"1","0","0","8">>, name |-> <<"E","n","e","r","g","y">>], <<"K","C","A","L">>, float_of_int(387)),
      FlatEntry([id |-> <<"1","0","6","2">>, name |-> <<"E","n","e","r","g","y">>], <<"k","J">>, float_of_int(1619)),
      FlatEntry([id |-> <<"1","0","0","4">>, name |-> <<"T","o","t","a","l"," ","l","i","p","i","d"," ","(","f","a","t",")">>], <<"G">>, float_of_int(10)),
      NestedEntry([id |-> <<"1","2","5","8">>, name |-> <<"F","a","t","t","y"," ","a","c","i","d","s",","," ","t","o","t","a","l"," ","s","a","t","u","r","a","t","e","d">>],
                  <<"g">>, float_of_int(3)),
      FlatEntry([id |-> <<"1","9","9","9">>, name |-> <<"C","a","l","o","r","i","e","s"," ","f","r","o","m"," ","F","a","t">>], <<"K","C","A","L">>, float_of_int(90)),
      NestedEntry([id |-> <<"1","0","5","1">>, name |-> <<"W","a","t","e","r">>], <<"g">>, float_of_int(88)) }

\* largest number of entries of a record
MaxEntries == 2

\* records with two entries or more, in every order
SeveralEntryRecords ==
    { [description |-> "food", foodNutrients |-> es] :
        es \in UNION {[1..m -> PoolEntries] : m \in 2..MaxEntries} }

\* a record without a nutrient list
BareRecord == [description |-> "food"]

ExtractInputs == SingleEntryRecords \cup SeveralEntryRecords \cup {BareRecord}

ExtractInit ==
    /\ pc = "extract_call"
    /\ caller = "none"
    /\ recipe_servings = NoneValue
    /\ ingredients = <<>>
    /\ servings = DefaultServings
    /\ i = 0
    /\ quantity = <<>> /\ unit = "" /\ food_name = <<>>
    /\ search_results = <<>>
    /\ food_details \in ExtractInputs
    /\ nutrients = NoNutrients
    /\ qty_multiplier = Zero
    /\ scaled_nutrients = NoNutrients
    /\ total_nutrients = [k \in NutrientKeys |-> Zero]
    /\ ingredient_results = <<>>
    /\ per_serving = NoNutrients
    /\ outcome = "none"
    /\ label = NoLabel
    /\ log = <<>>
    /\ lookups = <<>>
    /\ parse_input = <<>>
    /\ parse_output = NoParse
    /\ PipelineIdle

\* nutrients = extract_nutrients(food_details), which raises TypeError when
\* it divides a value that is None
extract_call ==
    /\ pc = "extract_call"
    /\ IF extract_raises(food_details)
         THEN /\ outcome' = "TypeError"
              /\ UNCHANGED nutrients
         ELSE /\ outcome' = "returned"
              /\ nutrients' = extract_nutrients(food_details)
    /\ pc' = "extracted"
    /\ UNCHANGED <<caller, recipe_servings, label, ingredients, servings, i,
                   quantity, unit, food_name, search_results, food_details,
                   qty_multiplier, scaled_nutrients, total_nutrients,
                   ingredient_results, per_serving, log, lookups,
                   parse_vars, pipeline_vars>>

SpecExtract == ExtractInit /\ [][extract_call]_vars

(***************************************************************************)
(* The batch pipeline of recipe_automation_v2.py: the processed log, the   *)
(* two counters, process_single_recipe, process_all_images and             *)
(* generate_images_for_processed_recipes.  An image is named by its        *)
(* position in the sorted listing of the image directory, another name of  *)
(* the directory by a number that is no such position.  The OCR, the       *)
(* language model, the image generator and the file system are             *)
(* collaborators: what they give back is chosen nondeterministically.      *)
(* Writing the log file is taken to succeed, so a later run of the program *)
(* loads the log the earlier run left.                                     *)
(***************************************************************************)
\* number of images in the image directory
MaxImages == 2

\* largest number of runs of the program
MaxRuns == 2

\* sorted(os.listdir(IMAGE_DIR)): image k is the k-th file name
image_files == [k \in 1..MaxImages |-> k]

\* the limit parameter when no limit is asked for: None, which the test
\* "if limit:" treats as it treats 0
NoLimit == 0

\* the values of --start-index, --batch-size and --limit
StartIndexes == {0, 1}
BatchSizes == {1, 2}
Limits == {NoLimit, 1}

\* min(a, b)
Min(a, b) == IF a <= b THEN a ELSE b

\* list[a:b] of a Python list (0-based, end exclusive, clipped)
Slice(list, a, b) == SubSeq(list, a + 1, Min(b, Len(list)))

\* is_image_processed looking only at entries that record success
is_image_processed_success_only(image) ==
    image \in DOMAIN processed_images /\ processed_images[image].success

\* is_image_processed
is_image_processed(image) == image \in DOMAIN processed_images

\* has_images_generated
has_images_generated(image) ==
    IF image \in DOMAIN processed_images
      THEN processed_images[image].images_generated
    ELSE FALSE

\* the log after mark_image_processed(image, title, success, images_generated);
\* of the entry only success and images_generated are kept
mark_image_processed(logged, image, success, images_generated) ==
    [k \in DOMAIN logged \cup {image} |->
        IF k = image
          THEN [success |-> success, images_generated |-> images_generated]
        ELSE logged[k]]

\* the log after mark_images_generated(image)
mark_images_generated(logged, image) ==
    IF image \in DOMAIN logged
      THEN [logged EXCEPT ![image].images_generated = TRUE]
    ELSE logged

\* what the collaborators of process_single_recipe can lead to, for a call
\* that asks for product images or not: where the call ends, what it has
\* left of the product folder by then ("none", "bare" for the folder with
\* the copy of the image, "saved" for one that holds Recipe.txt), and
\* whether the chat call of the except branch of generate_nutrition_label
\* met a critical API error, which sets the flag and lets the call go on.
\* The end "api_error" is a critical API error in the OCR or the recipe
\* structuring (before the folder), or in the description, the allergies,
\* the diet, the social content or the tags, where None is handed up; in
\* estimate_recipe_details the None of ask_gpt is sliced before it is
\* tested (line 810), which raises TypeError; in
\* generate_coordinated_image_prompts the TypeError is caught by
\* generate_coordinated_images, which returns False.
ProcessOutcomes(generate_images) ==
    { [end |-> e, folder |-> "none", nutrition_error |-> FALSE] :
        e \in {"api_error", "no_ocr_text", "no_title", "exception"} }
    \cup { [end |-> "api_error_estimation", folder |-> "bare",
            nutrition_error |-> FALSE] }
    \cup { [end |-> e, folder |-> "bare", nutrition_error |-> n] :
             e \in {"api_error", "exception"}, n \in BOOLEAN }
    \cup { [end |-> e, folder |-> "saved", nutrition_error |-> n] :
             e \in {"exception"}
                     \cup (IF generate_images
                             THEN {"api_error_images", "api_error_image_prompts",
                                   "images_made", "images_failed"}
                           ELSE {"no_images_asked"}),
             n \in BOOLEAN }

\* the ends in which check_api_error_and_exit found a critical error
ApiErrorOutcomes ==
    {"api_error", "api_error_estimation", "api_error_images",
     "api_error_image_prompts"}

\* the places of the critical API errors met in a call with outcome o
api_errors_of(o) ==
    (IF o.end \in ApiErrorOutcomes THEN {o.end} ELSE {})
        \cup (IF o.nutrition_error THEN {"api_error_nutrition"} ELSE {})

\* an outcome of a call that met no critical API error and left no folder
NoOutcome == [end |-> "none", folder |-> "none", nutrition_error |-> FALSE]

\* a call on one image, with the critical API error it ended with or went
\* on from in the image prompts, "none" when there was none
call_of(image, force_reprocess, o) ==
    [image |-> image, force_reprocess |-> force_reprocess,
     api_error |-> IF o.end \in ApiErrorOutcomes THEN o.end ELSE "none"]

\* process_single_recipe(image_path, generate_images, force_reprocess)
process_single_recipe(image, generate_images, force_reprocess) ==
    IF is_image_processed(image) /\ ~force_reprocess
         THEN /\ calls' = Append(calls, call_of(image, force_reprocess, NoOutcome))
              /\ result' = "True"
              /\ UNCHANGED <<processed_images, processed_count, failed_count,
                             attempted, product_dirs, bare_dirs, product_images,
                             api_error_detected, written>>
         ELSE /\ attempted' = Append(attempted, image)
              /\ \E o \in ProcessOutcomes(generate_images) :
                   /\ calls' = Append(calls, call_of(image, force_reprocess, o))
                   /\ api_error_detected' =
                         (api_error_detected \/ api_errors_of(o) # {})
                   /\ product_dirs' = IF o.folder = "saved"
                                        THEN product_dirs \cup {image}
                                      ELSE product_dirs
                   /\ bare_dirs' = IF o.folder = "bare"
                                     THEN bare_dirs \cup {image}
                                   ELSE bare_dirs
                   /\ CASE o.end \in {"api_error", "api_error_images"} ->
                          /\ result' = "None"
                          /\ UNCHANGED <<processed_images, processed_count,
                                         failed_count, product_images, written>>
                     [] o.end \in {"no_ocr_text", "no_title"} ->
                          /\ processed_images' =
                                mark_image_processed(processed_images, image, FALSE, FALSE)
                          /\ written' = Append(written, FALSE)
                          /\ result' = "False"
                          /\ UNCHANGED <<processed_count, failed_count,
                                         product_images>>
                     [] o.end \in {"exception", "api_error_estimation"} ->
                          /\ processed_images' =
                                mark_image_processed(processed_images, image, FALSE, FALSE)
                          /\ written' = Append(written, FALSE)
                          /\ failed_count' = failed_count + 1
                          /\ result' = "False"
                          /\ UNCHANGED <<processed_count, product_images>>
                     [] o.end = "images_made" ->
                          /\ processed_images' =
                                mark_image_processed(
                                    mark_images_generated(processed_images, image),
                                    image, TRUE, FALSE)
                          /\ written' = Append(written, TRUE)
                          /\ processed_count' = processed_count + 1
                          /\ product_images' = product_images \cup {image}
                          /\ result' = "True"
                          /\ UNCHANGED failed_count
                     [] o.end \in {"images_failed", "no_images_asked",
                                   "api_error_image_prompts"} ->
                          /\ processed_images' =
                                mark_image_processed(processed_images, image, TRUE, FALSE)
                          /\ written' = Append(written, TRUE)
                          /\ processed_count' = processed_count + 1
                          /\ result' = "True"
                          /\ UNCHANGED <<failed_count, product_images>>

\* what the collaborators of generate_images_for_single_recipe can lead to:
\* the loop over os.listdir takes the first folder that holds the copy of
\* the image, in the order the file system lists them, so that an image
\* with a folder of either kind can meet either
ImageOutcomes(image) ==
    (IF image \in product_dirs
       THEN {"api_error_images", "api_error_image_prompts", "images_made",
             "images_failed", "exception"}
     ELSE {})
    \cup (IF image \in bare_dirs THEN {"no_recipe_file"} ELSE {})
    \cup (IF image \notin product_dirs \cup bare_dirs
            THEN {"no_product_dir"} ELSE {})

\* generate_images_for_single_recipe(image_path)
generate_images_for_single_recipe(image) ==
    /\ attempted' = Append(attempted, image)
    /\ \E e \in ImageOutcomes(image) :
         LET o == [end |-> e, folder |-> "none", nutrition_error |-> FALSE]
         IN  /\ calls' = Append(calls, call_of(image, FALSE, o))
             /\ api_error_detected' =
                   (api_error_detected \/ api_errors_of(o) # {})
             /\ CASE e = "api_error_images" ->
                    /\ result' = "None"
                    /\ UNCHANGED <<processed_images, processed_count,
                                   failed_count, product_images>>
               [] e = "images_made" ->
                    /\ processed_images' =
                          mark_images_generated(processed_images, image)
                    /\ processed_count' = processed_count + 1
                    /\ product_images' = product_images \cup {image}
                    /\ result' = "True"
                    /\ UNCHANGED failed_count
               [] e \in {"images_failed", "exception", "no_recipe_file",
                         "no_product_dir", "api_error_image_prompts"} ->
                    /\ failed_count' = failed_count + 1
                    /\ result' = "False"
                    /\ UNCHANGED <<processed_images, processed_count,
                                   product_images>>
    /\ UNCHANGED <<product_dirs, bare_dirs, written>>

\* the batch function has ended, or was never entered
Done(of_mode, start_index, limit) ==
    [mode |-> "done", of |-> of_mode, start_index |-> start_index,
     limit |-> limit]

\* the locals of a batch function before its loop: the list it walks, the
\* bound of the outer loop, the start of the current batch (0-based) and
\* the number of images of that batch already taken
batch_run(mode, list, start_index, batch_size, limit, total_images, generate_images, force_reprocess) ==
    IF start_index >= total_images
      THEN Done(mode, start_index, limit)
    ELSE [mode |-> mode, list |-> list, start_index |-> start_index,
          batch_size |-> batch_size, limit |-> limit,
          total_images |-> total_images, generate_images |-> generate_images,
          force_reprocess |-> force_reprocess, i |-> start_index, taken |-> 0]

\* the batch image_files[i:i + batch_size] of the current run
batch == Slice(run.list, run.i, run.i + run.batch_size)

\* the run after the image just taken returned r: None ends the function,
\* the end of the batch moves the outer loop on, the end of the outer loop
\* ends the function
run_after(r) ==
    IF r = "None"
      THEN Done(run.mode, run.start_index, run.limit)
    ELSE IF run.taken + 1 < Len(batch)
      THEN [run EXCEPT !.taken = run.taken + 1]
    ELSE IF run.i + run.batch_size < run.total_images
      THEN [run EXCEPT !.i = run.i + run.batch_size, !.taken = 0]
    ELSE Done(run.mode, run.start_index, run.limit)

\* main() up to the dispatch on the mode: a run of the program starts, the
\* RecipeProcessor is constructed with both counters 0 and the log loaded
\* from the log file.  The program can be started whenever no run is
\* going on: before the first run and after a run has ended, in a batch
\* function, after the one call of --single, or inside main() itself
main ==
    /\ pc = "cli"
    /\ run.mode \in {"none", "done"}
    /\ invocations < MaxRuns
    /\ invocations' = invocations + 1
    /\ processed_count' = 0
    /\ failed_count' = 0
    /\ result' = "none"
    /\ calls' = <<>>
    /\ attempted' = <<>>
    /\ api_error_detected' = FALSE
    /\ written' = <<>>
    /\ run' = [mode |-> "main"]
    /\ UNCHANGED <<processed_images, product_dirs, bare_dirs, product_images>>
    /\ UNCHANGED <<pc, caller, recipe_servings, label, aggregation_vars, parse_vars>>

\* the names that pass os.path.exists in the image directory and are no
\* image of the listing: the directory itself ('' at the prompt, '.'), a
\* file of another type; process_single_recipe works on such a path as on
\* any other and keeps its log entry under the base name
\* (one such name is kept; no batch function ever selects it)
OtherNames == {0}

\* the listing of line 2254, which is not sorted: the images in any order
main_image_files ==
    { listing \in [1..MaxImages -> 1..MaxImages] :
        \A k \in 1..MaxImages : \E n \in 1..MaxImages : listing[n] = image_files[k] }

\* what --image, or the answer to the prompt of lines 2297-2310, can be: an
\* image number (1-based, in range or not), the name of an image or of
\* something else that exists, or a name that does not exist
ImageArguments ==
    { [kind |-> "number", value |-> n] : n \in 0..MaxImages + 1 }
    \cup { [kind |-> "name", value |-> k] : k \in (1..MaxImages) \cup OtherNames }
    \cup { [kind |-> "missing"] }

\* lines 2265-2310: the paths main() hands to process_single_recipe, none
\* when main() returns without a call (number out of range, no such file)
chosen_image(listing, argument) ==
    IF Len(listing) = 1 THEN {listing[1]}
    ELSE IF argument.kind = "number"
      THEN IF 0 <= argument.value - 1 /\ argument.value - 1 < Len(listing)
             THEN {listing[argument.value]}
           ELSE {}
    ELSE IF argument.kind = "name" THEN {argument.value}
    ELSE {}

\* --single, lines 2264-2316: the image is chosen, from the listing in the
\* order the file system gave it and the argument, and process_single_recipe
\* is called on it; with no image chosen main() returns and the run ends
single_recipe ==
    /\ run.mode = "main"
    /\ \E chosen \in { chosen_image(listing, argument) :
                          listing \in main_image_files, argument \in ImageArguments },
          generate_images \in BOOLEAN, force_reprocess \in BOOLEAN :
          IF chosen = {}
            THEN UNCHANGED <<processed_images, processed_count, failed_count,
                             result, calls, attempted, product_dirs, bare_dirs,
                             product_images, api_error_detected, written>>
          ELSE \E image \in chosen :
                  process_single_recipe(image, generate_images, force_reprocess)
    /\ run' = Done("single", 0, NoLimit)
    /\ UNCHANGED <<invocations, pc, caller, recipe_servings, label,
                   aggregation_vars, parse_vars>>

\* --all: process_all_images up to its loop, lines 1416-1431
process_all_images ==
    /\ run.mode = "main"
    /\ \E start_index \in StartIndexes, batch_size \in BatchSizes,
          limit \in Limits, generate_images \in BOOLEAN,
          force_reprocess \in BOOLEAN :
          LET total_images ==
                  IF limit # NoLimit
                    THEN Min(Len(image_files), start_index + limit)
                  ELSE Len(image_files)
          IN  run' = batch_run("all", image_files, start_index, batch_size,
                               limit, total_images, generate_images,
                               force_reprocess)
    /\ UNCHANGED <<processed_images, processed_count, failed_count,
                   invocations, result, calls, attempted, product_dirs,
                   bare_dirs, product_images, api_error_detected, written>>
    /\ UNCHANGED <<pc, caller, recipe_servings, label, aggregation_vars, parse_vars>>

\* one image of the loop of process_all_images, lines 1434-1452
process_all_step ==
    /\ run.mode = "all"
    /\ \E image \in {batch[run.taken + 1]} :
          process_single_recipe(image, run.generate_images, run.force_reprocess)
    /\ run' = run_after(result')
    /\ UNCHANGED <<invocations, pc, caller, recipe_servings, label,
                   aggregation_vars, parse_vars>>

\* the images that are in the log and have no images recorded, lines 1464-1469
images_needing_images ==
    LET keep == {k \in 1..Len(image_files) :
                   /\ is_image_processed(image_files[k])
                   /\ ~has_images_generated(image_files[k])}
    IN  IF keep = {} THEN <<>> ELSE SelectPositions(image_files, keep)

\* --images-only: generate_images_for_processed_recipes up to its loop,
\* lines 1456-1482
generate_images_for_processed_recipes ==
    /\ run.mode = "main"
    /\ \E batch_size \in BatchSizes, limit \in Limits :
          LET total_images ==
                  IF limit # NoLimit
                    THEN Min(Len(images_needing_images), limit)
                  ELSE Len(images_needing_images)
          IN  run' = batch_run("images", images_needing_images, 0, batch_size,
                               limit, total_images, FALSE, FALSE)
    /\ UNCHANGED <<processed_images, processed_count, failed_count,
                   invocations, result, calls, attempted, product_dirs,
                   bare_dirs, product_images, api_error_detected, written>>
    /\ UNCHANGED <<pc, caller, recipe_servings, label, aggregation_vars, parse_vars>>

\* one image of the loop of generate_images_for_processed_recipes,
\* lines 1485-1503
generate_images_step ==
    /\ run.mode = "images"
    /\ \E image \in {batch[run.taken + 1]} :
          generate_images_for_single_recipe(image)
    /\ run' = run_after(result')
    /\ UNCHANGED <<invocations, pc, caller, recipe_servings, label,
                   aggregation_vars, parse_vars>>

PipelineInit ==
    /\ pc = "cli"
    /\ Idle(<<>>)
    /\ parse_input = <<>>
    /\ parse_output = NoParse

\* --csv-only, lines 2338-2341: create_master_csv reads the product folders
\* and writes the master listing; no image is processed and the run ends
csv_only ==
    /\ run.mode = "main"
    /\ run' = Done("csv", 0, NoLimit)
    /\ UNCHANGED <<processed_images, processed_count, failed_count,
                   invocations, result, calls, attempted, product_dirs,
                   bare_dirs, product_images, api_error_detected, written>>
    /\ UNCHANGED <<pc, caller, recipe_servings, label, aggregation_vars, parse_vars>>

PipelineNext ==
    \/ main
    \/ single_recipe
    \/ csv_only
    \/ process_all_images
    \/ process_all_step
    \/ generate_images_for_processed_recipes
    \/ generate_images_step

SpecPipeline == PipelineInit /\ [][PipelineNext]_vars
(***************************************************************************)
(* Definitions used to state the properties.                               *)
(***************************************************************************)
\* the text is a fraction digits/digits
IsFractionText(text) == fraction_match(text) = Len(text) /\ Len(text) > 0

\* numerator and denominator of a fraction text
Numerator(text) == DigitsValue(Take(text, LeadingDigits(text)))
Denominator(text) == DigitsValue(Drop(text, LeadingDigits(text) + 1))

\* the real number a quantity text denotes: an integer, a decimal or a
\* fraction a/b with b # 0
DenotesNumber(text) ==
    IF IsFractionText(text) THEN Denominator(text) # 0
    ELSE python_float(text) # ValueError

QuantityValue(text) ==
    IF IsFractionText(text) THEN Float(Numerator(text), Denominator(text))
    ELSE python_float(text)

\* the units of the mass table
MassUnits == {"cup", "tablespoon", "teaspoon", "ounce", "pound", "gram"}

\* the per-100g mapping of the database record fdc_id
Per100g(fdc_id) == extract_nutrients(FoodDB[fdc_id])

\* the analysis has returned its result
Returned == outcome = "returned"

\* the analysis has ended, with a result or with an error
Ended == outcome # "none"

\* the warnings that report a skipped line
SkipWarnings == {"no_food_name", "no_results", "no_details", "no_nutrients"}

\* number of lines skipped so far
Skipped == Cardinality({j \in DOMAIN log : log[j] \in SkipWarnings})

\* number of lines the loop has finished with: all it has taken but the
\* one in process, or the one an error of the loop has abandoned
LinesCompleted ==
    IF pc \in {"search", "details", "extract", "scale"} \/ outcome = "TypeError"
      THEN i - 1
    ELSE i

\* the serving count a serving text states: its leading integer, if any
HasServingCount(text) == text # NoneValue /\ LeadingDigits(text) > 0
ServingCount(text) == DigitsValue(Take(text, LeadingDigits(text)))

(***************************************************************************)
(* Properties.                                                             *)
(***************************************************************************)

\* C1: an entry whose quantity is a fraction a/b with a unit of the mass
\* table carries, for every extracted key k, the contribution
\* per100g[k] * (a/b) * grams_per_unit(unit) / 100; for "1/2 cup" and 387
\* calories per 100g that is 464.4.
C1_FractionScaledByMass ==
    \A n \in DOMAIN ingredient_results :
        LET e == ingredient_results[n]
        IN  (IsFractionText(e.quantity) /\ DenotesNumber(e.quantity) /\ e.unit \in MassUnits)
            => /\ DOMAIN e.nutrients = DOMAIN Per100g(e.fdc_id)
               /\ \A k \in DOMAIN e.nutrients :
                     e.nutrients[k] =
                        float_truediv(
                            float_mul(Per100g(e.fdc_id)[k],
                                      float_mul(QuantityValue(e.quantity),
                                                grams_per_unit(e.unit))),
                            100)
               /\ (e.quantity = <<"1","/","2">> /\ e.unit = "cup"
                   /\ Per100g(e.fdc_id)["calories"] = float_of_int(387))
                  => e.nutrients["calories"] = Float(4644, 10)

\* C2: when the analysis returns, the breakdown has one entry per input
\* line, a line that failed to resolve included, so the breakdown is as long
\* as the input.
C2_OneEntryPerInputLine ==
    Returned => Len(ingredient_results) = Len(ingredients)

\* C3: whatever the lines and the lookup outcomes, the analysis raises no
\* error, takes every line, and returns total, per_serving, the breakdown
\* and servings.
C3_NoErrorAndResult ==
    /\ outcome \in {"none", "returned"}
    /\ Ended => /\ i = Len(ingredients)
                /\ DOMAIN total_nutrients = NutrientKeys
                /\ DOMAIN per_serving = NutrientKeys

\* C4: when no line resolves, the analysis does not raise and every total
\* and every per-serving value is 0.
C4_NothingResolvedGivesZeros ==
    (Ended /\ ingredient_results = <<>>)
        => /\ Returned
           /\ \A k \in NutrientKeys :
                 total_nutrients[k] = Zero /\ per_serving[k] = Zero

\* C5: in every call the divisor servings is at least 1.
C5_ServingsAtLeastOne ==
    caller # "none" => servings >= 1

\* C6: in the result per_serving has the eleven keys and per_serving[k] is
\* total[k] / servings; total calories 800 with 8 servings give 100.
C6_PerServingIsTotalOverServings ==
    Returned
        => /\ DOMAIN per_serving = NutrientKeys
           /\ \A k \in NutrientKeys :
                 per_serving[k] = float_truediv(total_nutrients[k], servings)
           /\ (total_nutrients["calories"] = float_of_int(800) /\ servings = 8)
                 => per_serving["calories"] = float_of_int(100)

\* a result with total calories 800 and 8 servings
C6_Witness ==
    /\ Returned
    /\ servings = 8
    /\ total_nutrients["calories"] = float_of_int(800)
    /\ per_serving["calories"] = float_of_int(100)

\* C7: the divisor of a recipe whose serving text states a count is that
\* count; 8 is the divisor only when the text states none.
C7_DivisorIsRecipeServings ==
    (caller = "label" /\ Returned)
        => servings = IF HasServingCount(recipe_servings)
                        THEN ServingCount(recipe_servings)
                      ELSE DefaultServings

\* C8: of two entries with the same unit and the same database record, the
\* one whose quantity is twice the other's contributes twice the value for
\* every key.
C8_ScalingLinearInQuantity ==
    \A m, n \in DOMAIN ingredient_results :
        LET a == ingredient_results[m]
            b == ingredient_results[n]
        IN  (/\ a.unit = b.unit
             /\ a.fdc_id = b.fdc_id
             /\ DenotesNumber(a.quantity) /\ DenotesNumber(b.quantity)
             /\ QuantityValue(b.quantity) =
                   float_mul(float_of_int(2), QuantityValue(a.quantity)))
            => \A k \in DOMAIN a.nutrients :
                  b.nutrients[k] = float_mul(float_of_int(2), a.nutrients[k])

\* C9: a line "fraction unit-token food-word" parses to the fraction text
\* as quantity, the unit of the token, and a food name that contains the
\* food word.
C9_LeadingFraction ==
    pc = "parsed"
        => \A q \in FractionTexts, u \in UnitTokens, f \in FoodWords :
              parse_input = q \o <<" ">> \o u.text \o <<" ">> \o f
                 => /\ parse_output.quantity = q
                    /\ parse_output.unit = u.name
                    /\ ContainsExact(parse_output.food_name, f)

\* "3/4 c. butter" has been parsed
C9_Witness ==
    /\ pc = "parsed"
    /\ parse_input = <<"3","/","4"," ","c","."," ","b","u","t","t","e","r">>
    /\ parse_output.quantity = <<"3","/","4">>
    /\ parse_output.unit = "cup"
    /\ ContainsExact(parse_output.food_name, <<"b","u","t","t","e","r">>)

\* C10: a line "integer food-word" parses to the integer text as quantity,
\* the empty unit, and exactly the food word as food name.
C10_BareCount ==
    pc = "parsed"
        => \A q \in IntegerTexts, f \in FoodWords :
              parse_input = q \o <<" ">> \o f
                 => parse_output = [quantity |-> q, unit |-> "", food_name |-> f]

\* "2 eggs" has been parsed
C10_Witness ==
    /\ pc = "parsed"
    /\ parse_input = <<"2"," ","e","g","g","s">>
    /\ parse_output = [quantity |-> <<"2">>, unit |-> "", food_name |-> <<"e","g","g","s">>]

\* the entry of the one-entry record given to extract_nutrients
GivenEntry == food_details.foodNutrients[1]

\* extract_nutrients has returned its mapping
Extracted == pc = "extracted" /\ outcome = "returned"

\* extract_nutrients has returned for a record with exactly one entry
OneEntryExtracted ==
    /\ Extracted
    /\ "foodNutrients" \in DOMAIN food_details
    /\ Len(food_details.foodNutrients) = 1

\* the unit name says milligrams, micrograms
InMilligrams(u) == Lower(u) \in {<<"m","g">>, <<"m","i","l","l","i","g","r","a","m">>}
InMicrograms(u) == Lower(u) \in {<<"m","c","g">>, <<"m","i","c","r","o","g","r","a","m">>}

\* C11: every extracted value is the entry's value divided by 1000 when the
\* key is sodium, calcium or iron and the entry is in milligrams, or the key
\* is vitamin_a and the entry is in micrograms, and the entry's value itself
\* otherwise; sodium 500 mg extracts to 0.5.
C11_DividedByThousandExactlyWhen ==
    OneEntryExtracted
        => /\ \A k \in DOMAIN nutrients :
                 IF \/ k \in {"sodium", "calcium", "iron"}
                       /\ InMilligrams(entry_unit(GivenEntry))
                    \/ k = "vitamin_a" /\ InMicrograms(entry_unit(GivenEntry))
                   THEN nutrients[k] = float_truediv(entry_value(GivenEntry), 1000)
                 ELSE nutrients[k] = entry_value(GivenEntry)
           /\ (/\ entry_name_lower(GivenEntry) = <<"s","o","d","i","u","m",","," ","n","a">>
               /\ entry_unit(GivenEntry) = <<"m","g">>
               /\ entry_value(GivenEntry) = float_of_int(500))
                 => nutrients = [k \in {"sodium"} |-> Float(1, 2)]

\* sodium 500 mg has been extracted as 0.5
C11_Witness ==
    /\ OneEntryExtracted
    /\ entry_name_lower(GivenEntry) = <<"s","o","d","i","u","m",","," ","n","a">>
    /\ entry_unit(GivenEntry) = <<"m","g">>
    /\ entry_value(GivenEntry) = float_of_int(500)
    /\ nutrients = [k \in {"sodium"} |-> Float(1, 2)]

\* C15: an entry whose quantity text denotes no real number is still
\* recorded, with quantity 1.0 and the unit applied: every extracted key
\* carries per100g[k] * 1.0 * grams_per_unit(unit) / 100, which for a cup
\* is a mass of 240 g.
C15_UnparseableQuantityKeepsUnit ==
    \A n \in DOMAIN ingredient_results :
        LET e == ingredient_results[n]
        IN  ~DenotesNumber(e.quantity)
            => /\ DOMAIN e.nutrients = DOMAIN Per100g(e.fdc_id)
               /\ \A k \in DOMAIN e.nutrients :
                     e.nutrients[k] =
                        float_truediv(
                            float_mul(Per100g(e.fdc_id)[k],
                                      float_mul(float_of_int(1), grams_per_unit(e.unit))),
                            100)
               /\ e.unit = "cup"
                    => \A k \in DOMAIN e.nutrients :
                          e.nutrients[k] =
                             float_truediv(
                                 float_mul(Per100g(e.fdc_id)[k], float_of_int(240)),
                                 100)

\* C16: the quantity parse_ingredient returns denotes a real number: an
\* integer, a decimal, or a fraction whose denominator is not 0.
C16_QuantityDenotesNumber ==
    pc = "parsed" => DenotesNumber(parse_output.quantity)

\* the grams of one unit of quantity as the unit table states them
TableGrams(u) ==
    CASE u = "cup" -> float_of_int(240)
      [] u = "tablespoon" -> float_of_int(15)
      [] u = "teaspoon" -> float_of_int(5)
      [] u = "ounce" -> Float(2835, 100)
      [] u = "pound" -> Float(45359, 100)
      [] u = "gram" -> float_of_int(1)
      [] u \in {"pint", "quart", "gallon", ""} -> float_of_int(50)

\* the unit values parse_ingredient can return
UnitValues == {units[j].name : j \in DOMAIN units} \cup {""}

\* C17: every recorded entry carries, for every extracted key, the value
\* per100g[k] * quantity * g / 100 with g the grams the table states for
\* the entry's unit (50 for pint, quart, gallon and the empty unit).
C17_MassByUnitTable ==
    \A n \in DOMAIN ingredient_results :
        LET e == ingredient_results[n]
        IN  /\ e.unit \in UnitValues
            /\ DenotesNumber(e.quantity)
                 => \A k \in DOMAIN e.nutrients :
                       e.nutrients[k] =
                          float_truediv(
                              float_mul(Per100g(e.fdc_id)[k],
                                        float_mul(QuantityValue(e.quantity),
                                                  TableGrams(e.unit))),
                              100)

\* C18: a line "2 token token food" with tokens of two different units
\* parses to the unit of the first token, which is removed from the text.
C18_LeftmostUnitToken ==
    pc = "parsed"
        => \A p \in UnitTokenPairs, f \in {<<"s","u","g","a","r">>, <<"m","i","l","k">>} :
              parse_input = <<"2"," ">> \o p[1].text \o <<" ">> \o p[2].text \o <<" ">> \o f
                 => /\ parse_output.quantity = <<"2">>
                    /\ parse_output.unit = p[1].name
                    /\ parse_output.food_name = p[2].text \o <<" ">> \o f

\* the unit token is written with a trailing period
Dotted(u) == u.text[Len(u.text)] = "."

\* C19: a line "quantity token food" whose token is an abbreviation with a
\* trailing period parses to the unit of the token and exactly the food
\* word as food name; a line "integer food" with no unit token parses to
\* the empty unit and the food word.
C19_DottedTokenRemoved ==
    pc = "parsed"
        => /\ \A q \in IntegerTexts \cup FractionTexts, u \in UnitTokens,
                 f \in FoodWords :
                 (Dotted(u) /\ parse_input = q \o <<" ">> \o u.text \o <<" ">> \o f)
                    => /\ parse_output.unit = u.name
                       /\ parse_output.food_name = f
           /\ \A q \in IntegerTexts, f \in FoodWords :
                 parse_input = q \o <<" ">> \o f
                    => /\ parse_output.unit = ""
                       /\ parse_output.food_name = f

\* C20: a line of one or two leading fillers, in any order, followed by
\* "2 cups flour" parses to quantity "2", unit cup and food name "flour".
C20_FillersBeforeNumber ==
    pc = "parsed"
        => (parse_input \in FillerLines
              => parse_output =
                    [quantity |-> <<"2">>, unit |-> "cup", food_name |-> <<"f","l","o","u","r">>])

\* the batch function the run is in, or was in when it ended
RunMode == IF run.mode = "done" THEN run.of ELSE run.mode

\* the images at the 0-based positions s .. s+L-1 of the sorted listing
LimitedImages(s, L) ==
    {image_files[k] : k \in {j \in 1..Len(image_files) : s < j /\ j <= s + L}}

\* the elements of a sequence
Range(seq) == {seq[n] : n \in DOMAIN seq}

\* C12: a run of process_all_images with limit L and start index s goes to
\* work on at most L images, all of them at positions s .. s+L-1 of the
\* sorted listing, whatever the batch size; a run of
\* generate_images_for_processed_recipes with limit L generates images for
\* at most L recipes.
C12_LimitBoundsImages ==
    /\ (RunMode = "all" /\ run.limit # NoLimit)
          => /\ Len(attempted) <= run.limit
             /\ Range(attempted) \subseteq LimitedImages(run.start_index, run.limit)
    /\ (RunMode = "images" /\ run.limit # NoLimit)
          => Len(attempted) <= run.limit

\* C13: an image whose two product images were generated successfully, by
\* an images-only run or by process_single_recipe with generate_images
\* true, is in the log with images recorded, and the list an images-only
\* run selects holds only logged images and none that has product images.
C13_GeneratedImagesRecorded ==
    /\ \A image \in product_images :
          is_image_processed(image) /\ has_images_generated(image)
    /\ (run.mode = "images" /\ attempted = <<>>)
          => \A n \in DOMAIN run.list :
                /\ is_image_processed(run.list[n])
                /\ run.list[n] \notin product_images

\* C14: a call of process_single_recipe on an image that has an entry in
\* the log, of success or of failure, without force_reprocess returns True
\* and leaves the log, both counters, the images worked on and the files
\* as they were; every other call goes to work on the image.
C14_LoggedImageSkipped ==
    [][ (Len(calls') = Len(calls) + 1 /\ run.mode \in {"main", "all"})
          => LET c == calls'[Len(calls')]
             IN  IF c.image \in DOMAIN processed_images /\ ~c.force_reprocess
                   THEN /\ result' = "True"
                        /\ UNCHANGED <<processed_images, processed_count,
                                       failed_count, attempted, product_dirs,
                                       bare_dirs, product_images>>
                 ELSE attempted' = Append(attempted, c.image) ]_vars

\* the last call, without force_reprocess, was on an image whose entry
\* records a failure of an earlier run; it returned True and the image was
\* not worked on
C14_Witness ==
    /\ calls # <<>>
    /\ RunMode \in {"single", "all"}
    /\ LET c == calls[Len(calls)]
       IN  /\ ~c.force_reprocess
           /\ c.image \in DOMAIN processed_images
           /\ ~processed_images[c.image].success
           /\ c.image \notin Range(attempted)
    /\ result = "True"
    /\ processed_count = 0
    /\ failed_count = 0

\* the entries of the record given to extract_nutrients, <<>> when the
\* record has no nutrient list
GivenEntries ==
    IF "foodNutrients" \in DOMAIN food_details
      THEN food_details.foodNutrients ELSE <<>>

\* the positions of the entries whose identifier is, or whose name
\* contains, an alias of key k
Matching(k) ==
    {j \in DOMAIN GivenEntries : entry_matches(GivenEntries[j], nutrient_mapping[k])}

\* C21: for every key the extracted value is that of the first entry, in
\* list order, that matches the key: no matching entry stands before the
\* entry the value was taken from, and a key without a matching entry has
\* no value.  Entries after the first match change nothing, and one entry
\* can give its value to several keys.
C21_FirstMatchWins ==
    Extracted
        => \A k \in NutrientKeys :
              IF Matching(k) = {} THEN k \notin DOMAIN nutrients
              ELSE /\ k \in DOMAIN nutrients
                   /\ \E j \in Matching(k) :
                         /\ \A h \in Matching(k) : j <= h
                         /\ nutrients[k] = converted_value(k, GivenEntries[j])

\* energy in kcal stands before energy in kJ and calories is the kcal value
C21_Witness ==
    /\ Extracted
    /\ Len(GivenEntries) = 2
    /\ entry_unit(GivenEntries[1]) = <<"K","C","A","L">>
    /\ entry_unit(GivenEntries[2]) = <<"k","J">>
    /\ Matching("calories") = {1, 2}
    /\ nutrients = [k \in {"calories"} |-> float_of_int(387)]

\* one entry, "Calories from Fat", has given its value to calories and to
\* fat, before a total-fat entry that matches fat as well
C21_WitnessSeveralKeys ==
    /\ Extracted
    /\ Len(GivenEntries) = 2
    /\ Matching("calories") = {1}
    /\ Matching("fat") = {1, 2}
    /\ nutrients = [k \in {"calories", "fat"} |-> float_of_int(90)]

\* C22: the extracted mapping has keys of the eleven-key set only; a key
\* without a matching entry is absent, not 0; an entry that matches no
\* alias gives no key; a record without a nutrient list gives the empty
\* mapping; so every extracted key is a key of the zero-initialised total.
C22_OnlyKnownKeysAbsentWhenUnmatched ==
    Extracted
        => /\ DOMAIN nutrients \subseteq NutrientKeys
           /\ DOMAIN nutrients \subseteq DOMAIN total_nutrients
           /\ \A k \in NutrientKeys : Matching(k) = {} => k \notin DOMAIN nutrients
           /\ (\A k \in NutrientKeys : Matching(k) = {}) => nutrients = NoNutrients
           /\ "foodNutrients" \notin DOMAIN food_details => nutrients = NoNutrients

\* a record of water and total fat has been extracted: fat is the only key
C22_Witness ==
    /\ Extracted
    /\ Len(GivenEntries) = 2
    /\ entry_name_lower(GivenEntries[1]) = <<"w","a","t","e","r">>
    /\ \A k \in NutrientKeys : 1 \notin Matching(k)
    /\ nutrients = [k \in {"fat"} |-> float_of_int(10)]

\* the record without a nutrient list has been extracted to the empty mapping
C22_WitnessBareRecord ==
    /\ Extracted
    /\ "foodNutrients" \notin DOMAIN food_details
    /\ nutrients = NoNutrients

\* the unit name says grams
InGrams(u) == Lower(u) \in {<<"g">>, <<"g","r","a","m">>}

\* the value v reported in unit u, expressed in the canonical unit of key
\* k: kilocalories for calories (1 kcal = 4.184 kJ), milligrams for the two
\* vitamins, grams for the other keys
InCanonicalUnit(k, u, v) ==
    IF k = "calories"
      THEN IF Lower(u) = <<"k","c","a","l">> THEN v
           ELSE float_truediv(float_mul(v, float_of_int(1000)), 4184)
    ELSE IF k \in {"vitamin_c", "vitamin_a"}
      THEN IF InGrams(u) THEN float_mul(v, float_of_int(1000))
           ELSE IF InMilligrams(u) THEN v
           ELSE float_truediv(v, 1000)
    ELSE IF InGrams(u) THEN v
         ELSE IF InMilligrams(u) THEN float_truediv(v, 1000)
         ELSE float_truediv(float_truediv(v, 1000), 1000)

\* the unit u has a fixed conversion to the canonical unit of key k
Convertible(k, u) ==
    IF k = "calories" THEN Lower(u) \in {<<"k","c","a","l">>, <<"k","j">>}
    ELSE InGrams(u) \/ InMilligrams(u) \/ InMicrograms(u)

\* C23: every extracted value is the matched entry's value expressed in
\* the canonical unit of its key (kcal for calories, milligrams for
\* vitamin C and vitamin A, grams for the other keys), whatever unit the
\* entry reports; stated for the units with a fixed conversion factor
\* (kcal, kJ, g, mg, mcg) and the entries that carry a number.
C23_ValuesInCanonicalUnits ==
    OneEntryExtracted
        => \A k \in DOMAIN nutrients :
              (/\ Convertible(k, entry_unit(GivenEntry))
               /\ entry_value(GivenEntry) # NoneValue)
                 => nutrients[k] = InCanonicalUnit(k, entry_unit(GivenEntry),
                                                   entry_value(GivenEntry))

\* the last element of a non-empty sequence
Last(seq) == seq[Len(seq)]

\* C24: of every non-empty search result the first candidate is taken:
\* the details kept after get_food_details are those of the record of
\* candidate 0, and the entry recorded for the line carries the fdcId and
\* the description of candidate 0 and the scaled nutrients of that record,
\* whatever other candidates the result lists.
C24_FirstCandidateTaken ==
    [][ /\ (pc = "details" /\ pc' = "extract")
           => food_details' = FoodDB[search_results[1].fdcId]
        /\ (pc = "scale" /\ pc' = "loop")
           => /\ Len(ingredient_results') = Len(ingredient_results) + 1
              /\ food_details = FoodDB[search_results[1].fdcId]
              /\ Last(ingredient_results').fdc_id = search_results[1].fdcId
              /\ Last(ingredient_results').description = search_results[1].description
              /\ Last(ingredient_results').nutrients =
                    scale_nutrients(
                        extract_nutrients(FoodDB[search_results[1].fdcId]),
                        quantity_multiplier(quantity, unit)) ]_vars

\* a search returned two candidates, the record of the first one (2) was
\* fetched and its nutrients are about to be scaled
C24_Witness ==
    /\ pc = "scale"
    /\ Len(search_results) = 2
    /\ search_results[1].fdcId = 2
    /\ search_results[2].fdcId = 1
    /\ food_details = FoodDB[2]
    /\ nutrients = extract_nutrients(FoodDB[2])
    /\ Last(lookups) = [line |-> i, call |-> "get_food_details"]

\* the positions in lookups of the calls of c made for line n
CallsOf(n, c) ==
    {j \in DOMAIN lookups : lookups[j].line = n /\ lookups[j].call = c}

\* C25: for every line there is at most one call of search_food and at most
\* one of get_food_details, the second after the first; search_food is
\* called with a non-empty food name only, and a line whose parsed food name
\* is empty is left at once, no call being made for it; get_food_details is
\* called only when the search of the line returned a candidate; and total
\* changes only in the scaling step of a line whose details were fetched
\* and whose extracted mapping is not empty.
C25_StepsInOrderStopAtFirstFailure ==
    /\ [](/\ \A n \in 1..Len(ingredients) :
               /\ Cardinality(CallsOf(n, "search_food")) <= 1
               /\ Cardinality(CallsOf(n, "get_food_details")) <= 1
               /\ \A d \in CallsOf(n, "get_food_details") :
                     \E s \in CallsOf(n, "search_food") : s < d
          /\ pc = "search" => food_name # <<>>
          /\ pc = "details" => search_results # <<>>)
    /\ [][ /\ (/\ pc = "loop" /\ i' = i + 1
               /\ parse_ingredient(ingredients[i']).food_name = <<>>)
                => /\ pc' = "loop"
                   /\ lookups' = lookups
                   /\ \A j \in DOMAIN lookups : lookups[j].line < i'
           /\ (lookups' # lookups /\ lookups' # <<>>)
                => /\ lookups' = Append(lookups, Last(lookups'))
                   /\ Last(lookups').call = "search_food" => pc = "search"
                   /\ Last(lookups').call = "get_food_details" => pc = "details"
           /\ total_nutrients' # total_nutrients
                => /\ pc = "scale"
                   /\ nutrients # NoNutrients
                   /\ nutrients = extract_nutrients(food_details)
                   /\ lookups # <<>>
                   /\ Last(lookups).call = "get_food_details"
                   /\ Last(lookups).line = i ]_vars

\* of two lines the first had an empty food name and caused no lookup, the
\* second was searched, fetched and recorded
C25_Witness ==
    /\ Len(ingredients) = 2
    /\ log = <<"no_food_name">>
    /\ i = 2
    /\ pc = "loop"
    /\ Len(lookups) = 2
    /\ lookups[1].line = 2 /\ lookups[1].call = "search_food"
    /\ lookups[2].line = 2 /\ lookups[2].call = "get_food_details"
    /\ Len(ingredient_results) = 1
    /\ total_nutrients["calories"] # Zero

\* C26: the lines are taken one at a time in input order: the lookup calls
\* are made in the order of their lines, each for the line in process; an
\* entry is put at the end of the breakdown and is the entry of the line in
\* process; the line in process never goes back; so the entries stand in
\* the order of their lines.
C26_LinesInInputOrder ==
    /\ [](/\ \A a, b \in DOMAIN lookups :
                a < b => lookups[a].line <= lookups[b].line
          /\ \E f \in [DOMAIN ingredient_results -> DOMAIN ingredients] :
                /\ \A n \in DOMAIN ingredient_results :
                      ingredient_results[n].ingredient = ingredients[f[n]]
                /\ \A m, n \in DOMAIN ingredient_results : m < n => f[m] < f[n])
    /\ [][ /\ (lookups' # lookups /\ lookups' # <<>>)
              => /\ lookups' = Append(lookups, Last(lookups'))
                 /\ Last(lookups').line = i /\ i' = i
           /\ (ingredient_results' # ingredient_results /\ ingredient_results' # <<>>)
              => /\ ingredient_results' =
                       Append(ingredient_results, Last(ingredient_results'))
                 /\ Last(ingredient_results').ingredient = ingredients[i]
           /\ pc \notin {"idle", "label"} => (i' = i \/ i' = i + 1) ]_vars

\* two different lines were each searched, fetched and recorded, the first
\* line first
C26_Witness ==
    /\ Len(ingredients) = 2
    /\ ingredients[1] # ingredients[2]
    /\ Len(ingredient_results) = 2
    /\ ingredient_results[1].ingredient = ingredients[1]
    /\ ingredient_results[2].ingredient = ingredients[2]
    /\ Len(lookups) = 4
    /\ lookups[2].line = 1 /\ lookups[3].line = 2

\* the scaled contribution of an entry for key k, 0 when it has none
Contribution(entry, k) ==
    IF k \in DOMAIN entry.nutrients THEN entry.nutrients[k] ELSE Zero

\* the sum of the contributions of the entries for key k, in their order
RECURSIVE SumOfContributions(_, _)
SumOfContributions(entries, k) ==
    IF entries = <<>> THEN Zero
    ELSE float_add(SumOfContributions(SubSeq(entries, 1, Len(entries) - 1), k),
                   Contribution(Last(entries), k))

\* C27: total always has exactly the eleven keys, and after every iteration
\* of the loop and in the returned result total[k] is the sum of the
\* contributions for k of the entries recorded so far.
C27_TotalIsSumOfEntries ==
    /\ DOMAIN total_nutrients = NutrientKeys
    /\ outcome # "TypeError"
          => \A k \in NutrientKeys :
                total_nutrients[k] = SumOfContributions(ingredient_results, k)

\* a returned analysis of two entries that both contribute calories
C27_Witness ==
    /\ Returned
    /\ Len(ingredient_results) = 2
    /\ Contribution(ingredient_results[1], "calories") # Zero
    /\ Contribution(ingredient_results[2], "calories") # Zero
    /\ total_nutrients["calories"] =
          float_add(ingredient_results[1].nutrients["calories"],
                    ingredient_results[2].nutrients["calories"])
    /\ total_nutrients["protein"] = Zero

\* the sodium entry of a database record, 0 when it has none
SodiumEntry(fdc_id) == first_match(FoodDB[fdc_id].foodNutrients, "sodium")

\* every sodium entry of the database is in milligrams
DatabaseSodiumInMilligrams ==
    \A id \in DOMAIN FoodDB :
        SodiumEntry(id) # 0
           => InMilligrams(entry_unit(FoodDB[id].foodNutrients[SodiumEntry(id)]))

\* milligrams of sodium in 100 g of a record, as the database reports it
SodiumMgPer100g(fdc_id) ==
    IF SodiumEntry(fdc_id) = 0 THEN Zero
    ELSE entry_value(FoodDB[fdc_id].foodNutrients[SodiumEntry(fdc_id)])

\* milligrams of sodium of the recorded entries
RECURSIVE SodiumMg(_)
SodiumMg(entries) ==
    IF entries = <<>> THEN Zero
    ELSE LET e == Last(entries)
         IN  float_add(SodiumMg(SubSeq(entries, 1, Len(entries) - 1)),
                       float_truediv(
                           float_mul(SodiumMgPer100g(e.fdc_id),
                                     quantity_multiplier(e.quantity, e.unit)),
                           100))

\* generate_nutrition_label has returned the label it made from the result
\* of the analysis
LabelFromAnalysis == pc = "returned" /\ caller = "label" /\ Returned

\* C29: the sodium figure of a label made from the analysis carries the
\* suffix "mg" and is the sodium of the recorded entries, in milligrams,
\* divided by the servings and rounded to a whole number.
C29_SodiumFigureInMilligrams ==
    (LabelFromAnalysis /\ DatabaseSodiumInMilligrams)
        => label.sodium =
              format_f(float_truediv(SodiumMg(ingredient_results), servings), 0)
                 \o <<"m","g">>

\* the critical API errors of the stages OCR, recipe structuring, detail
\* estimation, description, allergies, diet, social content, tags and image
\* generation
StageApiErrors ==
    {"api_error", "api_error_estimation", "api_error_images",
     "api_error_image_prompts"}

\* C28: a call of process_single_recipe in which an OpenAI call of one of
\* those stages fails with a critical API error returns None and writes no
\* log entry, and the run of process_all_images it belongs to ends there.
C28_ApiErrorStopsRun ==
    [][ (/\ run.mode \in {"main", "all"}
         /\ Len(calls') = Len(calls) + 1
         /\ Last(calls').api_error \in StageApiErrors)
          => /\ result' = "None"
             /\ processed_images' = processed_images
             /\ written' = written
             /\ run'.mode = "done" ]_vars

\* number of entries of a sequence of flags that equal b
CountOf(flags, b) == Cardinality({n \in DOMAIN flags : flags[n] = b})

\* number of calls of this run that a critical API error ended with None
StoppedByApiError ==
    Cardinality({n \in DOMAIN calls :
                    calls[n].api_error \in {"api_error", "api_error_images"}})

\* C30: in a run that calls process_single_recipe, processed_count is the
\* number of log entries written with success=True in the run and
\* failed_count the number written with success=False, so their sum is the
\* number of images worked on and not stopped by an API error.
C30_CountersMatchLogWrites ==
    RunMode \in {"single", "all"}
        => /\ processed_count = CountOf(written, TRUE)
           /\ failed_count = CountOf(written, FALSE)
           /\ processed_count + failed_count = Len(attempted) - StoppedByApiError

=============================================================================
